---- MODULE Spec2Model ----
(***************************************************************************)
(* Model of rtclient/util/message_queue.py: MessageQueue and               *)
(* MessageQueueWithError, run by asyncio tasks on one event loop.          *)
(*                                                                         *)
(* One TLA+ step is one uninterrupted run of a task between two points     *)
(* where it yields to the event loop.  The loop runs woken tasks in the    *)
(* order they were woken (variable ready).  The receive delegate either    *)
(* suspends the poll task (pending I/O) or returns without suspending      *)
(* (a buffered frame, a closed socket, an outer queue's buffered message), *)
(* in which case the poll task keeps the loop (variable running).          *)
(***************************************************************************)
EXTENDS Integers, Sequences, FiniteSets, TLC

\* ---------------------------------------------------------------- bounds
NumConsumers == 3
MaxFrames == 3
MaxCalls == 3

Consumers == 1..NumConsumers

\* ---------------------------------------------------------------- values
\* A message is a record [seq, kind]: seq is its position in the transport's
\* stream (its identity), kind is what predicates look at.
Kinds == {"a", "b", "error"}
None == [seq |-> 0, kind |-> "None"]
Pending == [seq |-> 0, kind |-> "pending"]
NoFuture == [seq |-> 0, kind |-> "nofuture"]
Message(n, k) == [seq |-> n, kind |-> k]
RaisedException(n) == [seq |-> n, kind |-> "Exception"]
IsMessage(v) == v.kind \in Kinds
IsException(v) == v.kind = "Exception"

\* The predicates callers pass to receive: the set of kinds they accept.
Predicates == {{"a"}, {"b"}}
Accepts(predicate, message) == message.kind \in predicate

\* error_predicate of MessageQueueWithError (lambda m: m.type == "error")
_error_predicate(message) == message.kind = "error"
ErrorKinds == {k \in Kinds : _error_predicate(Message(1, k))}

\* Event-loop entries other than a consumer's wake-up.
PollStartEntry == 0
PollWakeEntry == -1

\* No object of rtclient/__init__.py is under study: the queue runs alone.
NoObject == "NoObject"

NoTask == "NoTask"
PollTask == "PollTask"

VARIABLES
    with_error,          \* TRUE: the object is a MessageQueueWithError
    _stored_messages,    \* MessageQueue._stored_messages
    waiting_receivers,   \* MessageQueue.waiting_receivers: <<[predicate, future]>>
    is_polling,          \* MessageQueue.is_polling
    poll_task,           \* MessageQueue.poll_task: None or a Task
    _error,              \* MessageQueueWithError._error
    fut,                 \* the asyncio.Future of each consumer's pending receive
    ready,               \* the event loop's FIFO of tasks to run
    running,             \* the task that keeps the loop without yielding
    suspended,           \* number of _poll_receive tasks blocked in the delegate
    closed,              \* the transport has reported end-of-stream
    trace,               \* what the delegate has returned or raised so far
    results,             \* each consumer's finished receive calls, in order:
                         \* [predicate, value returned or raised]
    self,                \* the fields of the rtclient object under study
    pc,                  \* where each task driving that object stands
    out                  \* what the object's operations returned, yielded or
                         \* raised, in order

\* The state of the objects of rtclient/__init__.py built on the queue.
clientVars == <<self, pc, out>>

vars == <<with_error, _stored_messages, waiting_receivers, is_polling, poll_task,
          _error, fut, ready, running, suspended, closed, trace, results,
          self, pc, out>>

\* ---------------------------------------------------------------- helpers
RemoveAt(s, i) == SubSeq(s, 1, i - 1) \o SubSeq(s, i + 1, Len(s))

\* A slip: the scan keeps the last match instead of returning at the first.
LastAccepted(messages, predicate) ==
    IF \E i \in 1..Len(messages) : Accepts(predicate, messages[i])
    THEN CHOOSE i \in 1..Len(messages) :
            /\ Accepts(predicate, messages[i])
            /\ \A j \in (i + 1)..Len(messages) : ~Accepts(predicate, messages[j])
    ELSE 0

\* Index of the first buffered message accepted by predicate, 0 when there is
\* none (the for/enumerate scan of _find_and_remove, lines 23-24).
FirstAccepted(messages, predicate) ==
    IF \E i \in 1..Len(messages) : Accepts(predicate, messages[i])
    THEN CHOOSE i \in 1..Len(messages) :
            /\ Accepts(predicate, messages[i])
            /\ \A j \in 1..(i - 1) : ~Accepts(predicate, messages[j])
    ELSE 0

\* A slip: the latest-registered accepting waiter is served.
LastWaiter(waiting, message) ==
    IF \E i \in 1..Len(waiting) : Accepts(waiting[i].predicate, message)
    THEN CHOOSE i \in 1..Len(waiting) :
            /\ Accepts(waiting[i].predicate, message)
            /\ \A j \in (i + 1)..Len(waiting) : ~Accepts(waiting[j].predicate, message)
    ELSE 0

\* Index of the first waiter whose predicate accepts message, 0 when there is
\* none (the for/enumerate scan of _notify_receiver, lines 61-62).
FirstWaiter(waiting, message) ==
    IF \E i \in 1..Len(waiting) : Accepts(waiting[i].predicate, message)
    THEN CHOOSE i \in 1..Len(waiting) :
            /\ Accepts(waiting[i].predicate, message)
            /\ \A j \in 1..(i - 1) : ~Accepts(waiting[j].predicate, message)
    ELSE 0

\* The part of the state the notify functions work on.
Q == [stored |-> _stored_messages, waiting |-> waiting_receivers,
      fut |-> fut, ready |-> ready]

\* The future of consumer c: the predicate its receive call was made with, the
\* future's state (no future, pending, or its result or exception) and how
\* many frames the transport had delivered when the call registered it.
Idle == [predicate |-> {}, value |-> NoFuture, since |-> 0]

\* future.done()
done(q, c) == q.fut[c].value # Pending

\* future.set_result(value) / future.set_exception(error): the future becomes
\* done and the task awaiting it is scheduled on the event loop.
set_result(q, c, value) ==
    [q EXCEPT !.fut[c].value = value, !.ready = Append(@, c)]

\* for _, future in self.waiting_receivers: if not future.done(): set(value)
RECURSIVE ResolveEach(_, _, _)
ResolveEach(q, waiting, value) ==
    IF waiting = <<>> THEN q
    ELSE LET c == Head(waiting).future
             q1 == IF done(q, c) THEN q ELSE set_result(q, c, value)
         IN  ResolveEach(q1, Tail(waiting), value)

ResolveAll(q, value) ==
    [ResolveEach(q, q.waiting, value) EXCEPT !.waiting = <<>>]

\* A slip: insert(0, message) instead of append.
_push_front(q, message) == [q EXCEPT !.stored = <<message>> \o @]

_push_back(q, message) == [q EXCEPT !.stored = Append(@, message)]

\* A slip: the waiters are released with None and the error is swallowed.
_notify_exception_as_none(q, error) == ResolveAll(q, None)

_notify_exception(q, error) == ResolveAll(q, error)

\* A slip: only the first waiter is resolved before the list is cleared.
_notify_first_end_of_stream(q) ==
    IF q.waiting = <<>> THEN q
    ELSE [set_result(q, Head(q.waiting).future, None) EXCEPT !.waiting = <<>>]

_notify_end_of_stream(q) == ResolveAll(q, None)

_notify_error(q, error) == ResolveAll(q, error)

\* A slip: the message handed to a waiter is buffered as well.
_notify_receiver_and_keep(q, message) ==
    LET i == FirstWaiter(q.waiting, message)
    IN  IF i # 0
        THEN _push_back(set_result([q EXCEPT !.waiting = RemoveAt(@, i)],
                                   q.waiting[i].future, message), message)
        ELSE _push_back(q, message)

_notify_receiver(q, message) ==
    LET i == FirstWaiter(q.waiting, message)
    IN  IF i # 0
        THEN set_result([q EXCEPT !.waiting = RemoveAt(@, i)],
                        q.waiting[i].future, message)
        ELSE _push_back(q, message)

\* ---------------------------------------------------------------- Init
Init ==
    /\ with_error \in BOOLEAN
    /\ _stored_messages = <<>>
    /\ waiting_receivers = <<>>
    /\ is_polling = FALSE
    /\ poll_task = "None"
    /\ _error = None
    /\ fut = [c \in Consumers |-> Idle]
    /\ ready = <<>>
    /\ running = NoTask
    /\ suspended = 0
    /\ closed = FALSE
    /\ trace = <<>>
    /\ results = [c \in Consumers |-> <<>>]
    /\ self = NoObject
    /\ pc = NoObject
    /\ out = <<>>

\* ---------------------------------------------------------------- receive
Commit(q) ==
    /\ _stored_messages' = q.stored
    /\ waiting_receivers' = q.waiting
    /\ fut' = q.fut
    /\ ready' = q.ready

\* lambda m: predicate(m) or self._error_predicate(m)      (line 100)
\* MessageQueue.receive is called with the caller's predicate itself.
EffectivePredicate(predicate) ==
    IF with_error THEN predicate \cup ErrorKinds ELSE predicate

\* A slip: only the first receive on a fresh queue starts a poll task.
ShouldStartPollOnce == ~is_polling /\ poll_task = "None" /\ trace = <<>> /\ ~closed

\* if not self.is_polling and self.poll_task is None        (line 79)
ShouldStartPoll == ~is_polling /\ poll_task = "None"

\* MessageQueueWithError.receive after super().receive has returned message
\* (lines 101-103): an error message is latched and handed to every waiter.
IsLatchable(message) ==
    with_error /\ message # None /\ IsMessage(message) /\ _error_predicate(message)

AfterSuperReceive(q, message) ==
    IF IsLatchable(message) THEN _notify_error(q, message) ELSE q

LatchAfter(message) ==
    IF IsLatchable(message) THEN message ELSE _error

Return(c, predicate, value) ==
    results' = [results EXCEPT ![c] =
                    Append(@, [predicate |-> predicate, value |-> value])]

\* Number of receive calls made so far, finished or pending.
CallsMade ==
    LET RECURSIVE Sum(_)
        Sum(S) == IF S = {} THEN 0
                  ELSE LET c == CHOOSE x \in S : TRUE
                       IN  Len(results[c])
                           + (IF fut[c] = Idle THEN 0 ELSE 1)
                           + Sum(S \ {c})
    IN  Sum(Consumers)

\* Consumers are numbered in the order of their first receive call.
HasCalled(c) == results[c] # <<>> \/ fut[c] # Idle
InCallOrder(c) == \A b \in Consumers : b < c => HasCalled(b)

\* A consumer task calls receive(predicate) and runs until it returns or
\* suspends in "await future".
receive(c, predicate) ==
    /\ running = NoTask
    /\ fut[c] = Idle
    /\ CallsMade < MaxCalls
    /\ InCallOrder(c)
    /\ IF with_error /\ _error # None
       THEN \* lines 98-99
            /\ Return(c, predicate, _error)
            /\ UNCHANGED <<_stored_messages, waiting_receivers, fut, ready,
                           poll_task, _error>>
       ELSE LET p == EffectivePredicate(predicate)
                i == FirstAccepted(_stored_messages, p)
            IN  IF i # 0
                THEN \* lines 72-74, then 101-104
                     LET found_message == _stored_messages[i]
                         q1 == [Q EXCEPT !.stored = RemoveAt(@, i)]
                     IN  /\ Commit(AfterSuperReceive(q1, found_message))
                         /\ _error' = LatchAfter(found_message)
                         /\ Return(c, predicate, found_message)
                         /\ UNCHANGED poll_task
                ELSE \* lines 76-82
                     LET q1 == [Q EXCEPT !.fut[c] = [predicate |-> predicate,
                                                     value |-> Pending,
                                                     since |-> Len(trace)],
                                         !.waiting = Append(@, [predicate |-> p,
                                                                future |-> c])]
                     IN  /\ IF ShouldStartPoll
                            THEN /\ poll_task' = "Task"
                                 /\ Commit([q1 EXCEPT !.ready =
                                                Append(@, PollStartEntry)])
                            ELSE /\ poll_task' = poll_task
                                 /\ Commit(q1)
                         /\ UNCHANGED <<_error, results>>
    /\ UNCHANGED <<with_error, is_polling, running, suspended, closed, trace>>
    /\ UNCHANGED clientVars

\* The event loop resumes a consumer whose future is done: "await future"
\* returns the result or raises the exception (line 82), then lines 101-104.
Resume(c) ==
    /\ running = NoTask
    /\ ready # <<>>
    /\ Head(ready) = c
    /\ LET message == fut[c].value
           q1 == [Q EXCEPT !.ready = Tail(@), !.fut[c] = Idle]
       IN  /\ Commit(AfterSuperReceive(q1, message))
           /\ _error' = LatchAfter(message)
           /\ Return(c, fut[c].predicate, message)
    /\ UNCHANGED <<with_error, is_polling, poll_task, running, suspended,
                   closed, trace>>
    /\ UNCHANGED clientVars

\* ---------------------------------------------------------------- _poll_receive
\* The event loop runs a task created at line 80 from its first line.
PollStart ==
    /\ running = NoTask
    /\ ready # <<>>
    /\ Head(ready) = PollStartEntry
    /\ ready' = Tail(ready)
    /\ IF is_polling
       THEN \* lines 29-30
            UNCHANGED <<is_polling, running>>
       ELSE \* line 33, then the loop head and the call of the delegate
            /\ is_polling' = TRUE
            /\ running' = PollTask
    /\ UNCHANGED <<with_error, _stored_messages, waiting_receivers, poll_task,
                   _error, fut, suspended, closed, trace, results>>
    /\ UNCHANGED clientVars

\* await self.receive_delegate() suspends: the task waits for I/O.
DelegateSuspends ==
    /\ running = PollTask
    /\ running' = NoTask
    /\ suspended' = suspended + 1
    /\ UNCHANGED <<with_error, _stored_messages, waiting_receivers, is_polling,
                   poll_task, _error, fut, ready, closed, trace, results>>
    /\ UNCHANGED clientVars

\* The I/O a suspended delegate waits for completes: its task is woken.
IOCompletes ==
    /\ suspended > 0
    /\ suspended' = suspended - 1
    /\ ready' = Append(ready, PollWakeEntry)
    /\ UNCHANGED <<with_error, _stored_messages, waiting_receivers, is_polling,
                   poll_task, _error, fut, running, closed, trace, results>>
    /\ UNCHANGED clientVars

\* A slip: recv without the "if self.ws.closed" test keeps reading frames.
DelegateOutcomesUnchecked ==
    {None}
    \cup (IF Len(trace) < MaxFrames
          THEN {Message(Len(trace) + 1, k) : k \in Kinds}
               \cup {RaisedException(Len(trace) + 1)}
          ELSE {})

\* What one call of the receive delegate can produce: a message, an
\* exception, or None at end-of-stream (RTLowLevelClient.recv: None once the
\* socket is closed).
DelegateOutcomes ==
    IF closed THEN {None}
    ELSE {None}
         \cup (IF Len(trace) < MaxFrames
               THEN {Message(Len(trace) + 1, k) : k \in Kinds}
                    \cup {RaisedException(Len(trace) + 1)}
               ELSE {})

\* A slip: the loop has no break for an empty waiter list.
LoopContinuesWhilePolling(waiting) == is_polling

\* if len(self.waiting_receivers) == 0: break, else while self.is_polling
LoopContinues(waiting) == Len(waiting) # 0 /\ is_polling

\* A slip: the finally clause inside the while loop, run after every message.
FinallyInsideLoop(continues) ==
    /\ is_polling' = FALSE
    /\ poll_task' = "None"
    /\ running' = IF continues THEN PollTask ELSE NoTask

\* try ... finally (lines 32, 44-46): the flags are reset when the loop is
\* left, by break or by an exception; while it continues the task calls the
\* delegate again with the flags as they are.
Finally(continues) ==
    IF continues
    THEN /\ running' = PollTask
         /\ UNCHANGED <<is_polling, poll_task>>
    ELSE /\ is_polling' = FALSE
         /\ poll_task' = "None"
         /\ running' = NoTask

\* The future of a receive whose caller was cancelled while it awaited it
\* (line 82), and what that caller's receive raises.
Cancelled == [seq |-> 0, kind |-> "cancelled"]
CancelledError == [seq |-> 0, kind |-> "CancelledError"]

\* What set_result raises on a future that is cancelled (line 64).
InvalidStateError == RaisedException(0)

\* Line 64 has no test of future.done(): the first waiter that accepts the
\* message is a cancelled one.
SetResultRaises(q, message) ==
    LET i == FirstWaiter(q.waiting, message)
    IN  i # 0 /\ q.fut[q.waiting[i].future].value = Cancelled

\* Lines 35-46: the delegate has produced outcome; q is the state it finds.
LoopBody(q, outcome) ==
    /\ closed' = (closed \/ outcome = None)
    /\ trace' = IF outcome = None THEN trace ELSE Append(trace, outcome)
    /\ IF outcome = None
       THEN /\ Commit(_notify_end_of_stream(q))
            /\ Finally(FALSE)
       ELSE IF IsException(outcome)
       THEN /\ Commit(_notify_exception(q, outcome))
            /\ Finally(FALSE)
       ELSE IF SetResultRaises(q, outcome)
       THEN \* line 63 has deleted the waiter, line 64 raises, line 42 catches
            LET i == FirstWaiter(q.waiting, outcome)
            IN  /\ Commit(_notify_exception([q EXCEPT !.waiting = RemoveAt(@, i)],
                                            InvalidStateError))
                /\ Finally(FALSE)
       ELSE LET q1 == _notify_receiver(q, outcome)
            IN  /\ Commit(q1)
                /\ Finally(LoopContinues(q1.waiting))
    /\ UNCHANGED <<with_error, _error, suspended, results>>
    /\ UNCHANGED clientVars

\* The delegate returns without suspending and the loop body runs on.
DelegateReturns ==
    /\ running = PollTask
    /\ \E outcome \in DelegateOutcomes : LoopBody(Q, outcome)

\* The event loop resumes the poll task with the delegate's outcome.
PollWake ==
    /\ running = NoTask
    /\ ready # <<>>
    /\ Head(ready) = PollWakeEntry
    /\ \E outcome \in DelegateOutcomes :
          LoopBody([Q EXCEPT !.ready = Tail(@)], outcome)

Next ==
    \/ \E c \in Consumers, predicate \in Predicates : receive(c, predicate)
    \/ \E c \in Consumers : Resume(c)
    \/ PollStart
    \/ DelegateSuspends
    \/ IOCompletes
    \/ DelegateReturns
    \/ PollWake

Spec == Init /\ [][Next]_vars

\* ---------------------------------------------------------------- scheduling
\* The steps that need no caller: the event loop runs every task it has
\* woken (Resume, PollStart, PollWake), a task that keeps the loop runs on
\* (DelegateSuspends, DelegateReturns), and the transport completes a pending
\* read with a frame, an exception or end-of-stream (IOCompletes).
Scheduled ==
    \/ \E c \in Consumers : Resume(c)
    \/ PollStart
    \/ DelegateSuspends
    \/ IOCompletes
    \/ DelegateReturns
    \/ PollWake

SpecLive == Spec /\ WF_vars(Scheduled)

\* ---------------------------------------------------------------- cancellation
\* The task of consumer c is cancelled while it waits in "await future" (line
\* 82): asyncio cancels the future, which stays in waiting_receivers, and the
\* receive call raises CancelledError.  The task does not call again.
Cancel(c) ==
    /\ running = NoTask
    /\ fut[c].value = Pending
    /\ fut' = [fut EXCEPT ![c].value = Cancelled]
    /\ Return(c, fut[c].predicate, CancelledError)
    /\ UNCHANGED <<with_error, _stored_messages, waiting_receivers, is_polling,
                   poll_task, _error, ready, running, suspended, closed, trace>>
    /\ UNCHANGED clientVars

NextCancel ==
    \/ Next
    \/ \E c \in Consumers : Cancel(c)

SpecCancel == Init /\ [][NextCancel]_vars

\* ---------------------------------------------------------------- types
ValueOK(v) == v = None \/ IsException(v) \/ IsMessage(v)

TypeOK ==
    /\ with_error \in BOOLEAN
    /\ is_polling \in BOOLEAN
    /\ poll_task \in {"None", "Task"}
    /\ running \in {NoTask, PollTask}
    /\ suspended \in 0..MaxCalls
    /\ closed \in BOOLEAN
    /\ Len(trace) <= MaxFrames
    /\ CallsMade <= MaxCalls

\* ================================================================ claims
\* Steps of a consumer, read off a pair of states.
\* c calls receive in this step (and returns at once or registers a future).
Calls(c) == fut[c] = Idle /\ (results'[c] # results[c] \/ fut'[c] # Idle)
\* c's receive returns in the step that called it.
ReturnsAtOnce(c) == fut[c] = Idle /\ results'[c] # results[c]
\* c's pending receive returns (or raises) in this step.
Returns(c) == fut[c] # Idle /\ results'[c] # results[c]
Last(s) == s[Len(s)]
Count(s, x) == Cardinality({i \in 1..Len(s) : s[i] = x})

\* ---------------------------------------------------------------- C1
\* _poll_receive tasks inside the while loop: blocked in the delegate, woken
\* with its outcome but not yet run, or holding the event loop.
ActiveLoops ==
    suspended + Count(ready, PollWakeEntry) + (IF running = PollTask THEN 1 ELSE 0)

\* C1: under any interleaving of receive calls there is at most one active
\* _poll_receive loop, hence at most one call of the receive delegate in
\* flight, and is_polling tells whether there is one.
C1_SingleReader ==
    /\ ActiveLoops <= 1
    /\ is_polling <=> (ActiveLoops = 1)

\* Several receive calls are pending and one loop reads for all of them.
C1_Witness ==
    /\ Len(waiting_receivers) >= 2
    /\ suspended = 1
    /\ Len(trace) >= 1

\* ---------------------------------------------------------------- C2
\* Number of places a message is held: returned results, resolved futures
\* and the buffer.
Copies(m) ==
    Cardinality({<<c, i>> \in Consumers \X (1..MaxCalls + 1) :
                    i <= Len(results[c]) /\ results[c][i].value = m})
    + Cardinality({c \in Consumers : fut[c].value = m})
    + Count(_stored_messages, m)

C2_AtMostOne ==
    \A i \in 1..Len(trace) :
        (IsMessage(trace[i]) /\ ~(with_error /\ _error_predicate(trace[i])))
            => Copies(trace[i]) <= 1

C2_Handed ==
    \A k \in Kinds :
        LET m == Message(Len(trace) + 1, k)
            W == waiting_receivers
        IN  (trace' = Append(trace, m)
             /\ \E i \in 1..Len(W) : Accepts(W[i].predicate, m))
            => \E i \in 1..Len(W) :
                  /\ Accepts(W[i].predicate, m)
                  /\ \A j \in 1..(i - 1) : ~Accepts(W[j].predicate, m)
                  /\ fut'[W[i].future].value = m
                  /\ \A c \in Consumers \ {W[i].future} : fut'[c] = fut[c]
                  /\ _stored_messages' = _stored_messages

\* C2: a message read from the transport is handed to exactly one waiter, the
\* earliest-registered outstanding one whose predicate accepts it; no other
\* waiter, even with an identical predicate, receives that message.
C2_ExactlyOneWaiter == []C2_AtMostOne /\ [][C2_Handed]_vars

\* The loop has just handed the latest message to one consumer while another
\* consumer, registered with the same predicate, is still waiting.
C2_Witness ==
    /\ running = PollTask
    /\ trace # <<>>
    /\ \E c1, c2 \in Consumers :
          /\ c1 # c2
          /\ fut[c1].value = Last(trace)
          /\ IsMessage(Last(trace))
          /\ fut[c2].value = Pending
          /\ fut[c2].predicate = fut[c1].predicate

\* ---------------------------------------------------------------- C3
C3_Step ==
    \A c \in Consumers :
        (Calls(c) /\ ~with_error)
        => LET p == IF fut'[c] # Idle THEN fut'[c].predicate
                    ELSE Last(results'[c]).predicate
               S == _stored_messages
           IN  (\E i \in 1..Len(S) : Accepts(p, S[i]))
               => \E i \in 1..Len(S) :
                     /\ Accepts(p, S[i])
                     /\ \A j \in 1..(i - 1) : ~Accepts(p, S[j])
                     /\ results'[c] = Append(results[c],
                                             [predicate |-> p, value |-> S[i]])
                     /\ _stored_messages' =
                            [j \in 1..(Len(S) - 1) |-> IF j < i THEN S[j] ELSE S[j + 1]]
                     /\ UNCHANGED <<waiting_receivers, fut, ready, trace, suspended,
                                    running, is_polling, poll_task, closed>>

\* C3: when the buffer holds a message the predicate accepts, receive returns
\* the earliest-arrived such message, removes exactly it, keeps the order of
\* the rest, registers no waiter and issues no transport read.
C3_BufferedFirst == [][C3_Step]_vars

\* A consumer's second call returned a message that arrived before the one its
\* first call returned: it was taken from the buffer, which still holds others.
C3_Witness ==
    /\ ~with_error
    /\ \E c \in Consumers :
          /\ Len(results[c]) >= 2
          /\ IsMessage(results[c][1].value)
          /\ IsMessage(results[c][2].value)
          /\ results[c][2].value.seq < results[c][1].value.seq
          /\ _stored_messages # <<>>

\* ---------------------------------------------------------------- C4
\* The messages consumer c has obtained so far, in the order it obtained them.
Obtained(c) ==
    LET Got(r) == IsMessage(r.value)
        vals == [i \in 1..Len(results[c]) |-> results[c][i]]
        held == IF IsMessage(fut[c].value) THEN <<fut[c]>> ELSE <<>>
        all == SelectSeq(vals \o held, Got)
    IN  [i \in 1..Len(all) |-> all[i].value]

\* The messages the transport has delivered that predicate P accepts.
Delivered(P) ==
    LET Wanted(m) == IsMessage(m) /\ Accepts(P, m)
    IN  SelectSeq(trace, Wanted)

\* The predicates of all receive calls consumer c has made.
PredicatesOf(c) ==
    {results[c][i].predicate : i \in 1..Len(results[c])}
    \cup (IF fut[c] # Idle THEN {fut[c].predicate} ELSE {})

\* C4: a consumer that calls receive one call at a time with a predicate no
\* other consumer's predicate overlaps obtains the messages its predicate
\* accepts in the order the transport delivered them and skips none.
C4_InArrivalOrder ==
    ~with_error =>
    \A c \in Consumers, P \in Predicates :
        (/\ PredicatesOf(c) = {P}
         /\ \A b \in Consumers \ {c} : \A R \in PredicatesOf(b) : R \cap P = {})
        => /\ Len(Obtained(c)) <= Len(Delivered(P))
           /\ \A i \in 1..Len(Obtained(c)) : Obtained(c)[i] = Delivered(P)[i]

\* A consumer obtained two messages of its kind, a message of another kind
\* arrived between them, and another consumer was calling meanwhile.
C4_Witness ==
    /\ ~with_error
    /\ \E c \in Consumers, P \in Predicates :
          /\ PredicatesOf(c) = {P}
          /\ \A b \in Consumers \ {c} : \A R \in PredicatesOf(b) : R \cap P = {}
          /\ \E b \in Consumers \ {c} : PredicatesOf(b) # {}
          /\ Len(results[c]) >= 2
          /\ IsMessage(results[c][1].value)
          /\ IsMessage(results[c][2].value)
          /\ results[c][2].value.seq >= results[c][1].value.seq + 2

\* ---------------------------------------------------------------- C5
\* The poll loop is left without a frame having been read: end-of-stream.
EndOfStreamStep == is_polling /\ ~is_polling' /\ trace' = trace

C5_Step ==
    /\ EndOfStreamStep =>
          /\ \A c \in Consumers :
                IF fut[c].value = Pending
                THEN /\ fut'[c].value = None
                     /\ Count(ready', c) = 1
                ELSE fut'[c] = fut[c]
          /\ waiting_receivers' = <<>>
          /\ poll_task' = "None"
          /\ ActiveLoops' = 0
          /\ closed'
          /\ UNCHANGED <<results, _stored_messages>>
    /\ \A c \in Consumers :
          (Returns(c) /\ fut[c].value = None)
          => /\ results'[c] = Append(results[c], [predicate |-> fut[c].predicate,
                                                  value |-> None])
             /\ fut'[c] = Idle

\* C5: when the transport returns end-of-stream while waiters are
\* outstanding, every outstanding waiter's receive returns None exactly once,
\* the waiter list becomes empty and the poll loop stops; waiters whose
\* messages already arrived keep their messages.
C5_EndOfStreamBroadcast == [][C5_Step]_vars

\* End-of-stream has released two waiters while a third consumer still holds
\* the message that arrived for it just before.
C5_Witness ==
    /\ closed
    /\ \E c1, c2, c3 \in Consumers :
          /\ c1 # c2
          /\ fut[c1].value = None
          /\ fut[c2].value = None
          /\ IsMessage(fut[c3].value)

\* ---------------------------------------------------------------- C6
\* The predicate of the receive call consumer c makes in this step.
CalledWith(c) ==
    IF fut'[c] # Idle THEN fut'[c].predicate ELSE Last(results'[c]).predicate

\* A pending call is answered None after end-of-stream.
C6_PendingGetsNone ==
    \A c \in Consumers :
        (closed /\ fut[c].value = Pending /\ fut'[c].value # Pending)
        => fut'[c].value = None

\* C6 as claimed: after end-of-stream has been delivered to a MessageQueue,
\* every later receive call returns None, whatever its predicate and whatever
\* is left in the buffer.
C6_AlwaysNoneAfterEndOfStream ==
    [][~with_error =>
         /\ C6_PendingGetsNone
         /\ \A c \in Consumers :
               (closed /\ ReturnsAtOnce(c)) => Last(results'[c]).value = None]_vars

C6_Step ==
    ~with_error =>
      /\ C6_PendingGetsNone
      /\ \A c \in Consumers :
            (closed /\ Calls(c))
            => LET p == CalledWith(c)
                   S == _stored_messages
               IN  IF \E i \in 1..Len(S) : Accepts(p, S[i])
                   THEN /\ ReturnsAtOnce(c)
                        /\ \E i \in 1..Len(S) :
                              /\ Accepts(p, S[i])
                              /\ \A j \in 1..(i - 1) : ~Accepts(p, S[j])
                              /\ Last(results'[c]).value = S[i]
                   ELSE /\ fut'[c].value = Pending
                        /\ results'[c] = results[c]

\* C6 as amended: after end-of-stream has been delivered to a MessageQueue, a
\* later receive call returns None unless the buffer holds a message its
\* predicate accepts; then it returns the earliest such buffered message.
C6_NoneUnlessBuffered == [][C6_Step]_vars

\* A consumer's first call returned None at end-of-stream and its second call
\* then returned a message: one left in the buffer.
C6_Witness ==
    /\ ~with_error
    /\ closed
    /\ \E c \in Consumers :
          /\ Len(results[c]) >= 2
          /\ results[c][1].value = None
          /\ IsMessage(results[c][2].value)

\* ---------------------------------------------------------------- C7
C7_Step ==
    /\ LET e == RaisedException(Len(trace) + 1)
       IN  (trace' = Append(trace, e)) =>
              /\ \A c \in Consumers :
                    IF fut[c].value = Pending
                    THEN /\ fut'[c].value = e
                         /\ Count(ready', c) = 1
                    ELSE fut'[c] = fut[c]
              /\ waiting_receivers' = <<>>
              /\ ~is_polling'
              /\ poll_task' = "None"
              /\ ActiveLoops' = 0
    /\ \A c \in Consumers :
          (Returns(c) /\ IsException(fut[c].value))
          => /\ results'[c] = Append(results[c], [predicate |-> fut[c].predicate,
                                                  value |-> fut[c].value])
             /\ fut'[c] = Idle

\* C7: when the receive delegate raises, every outstanding waiter's receive
\* fails with that same exception, the waiter list is cleared, and the poll
\* loop ends with is_polling false and poll_task None.
C7_ExceptionBroadcast == [][C7_Step]_vars

\* Two consumers' receive calls have raised the same exception.
C7_Witness ==
    \E c1, c2 \in Consumers :
        /\ c1 # c2
        /\ \E i \in 1..Len(results[c1]), j \in 1..Len(results[c2]) :
              /\ IsException(results[c1][i].value)
              /\ results[c2][j].value = results[c1][i].value

\* ---------------------------------------------------------------- C8
\* C8: once MessageQueueWithError has latched an error, every later receive
\* call returns that same error object at once, without registering a waiter
\* and without scanning or changing the buffer.
C8_LatchedErrorReturned ==
    [][(with_error /\ _error # None) =>
         /\ _error' = _error
         /\ \A c \in Consumers :
               Calls(c) =>
                 /\ results'[c] = Append(results[c], [predicate |-> CalledWith(c),
                                                      value |-> _error])
                 /\ UNCHANGED <<_stored_messages, waiting_receivers, fut, ready,
                                trace, suspended, running, poll_task>>]_vars

\* ---------------------------------------------------------------- C9
\* The first error message that arrived after the transport had delivered n
\* frames, None when there is none.
FirstErrorAfter(n) ==
    IF \E i \in (n + 1)..Len(trace) : _error_predicate(trace[i])
    THEN trace[CHOOSE i \in (n + 1)..Len(trace) :
                  /\ _error_predicate(trace[i])
                  /\ \A j \in (n + 1)..(i - 1) : ~_error_predicate(trace[j])]
    ELSE None

\* C9: when an error-classified message arrives while several consumers are
\* waiting on the same MessageQueueWithError, every one of those pending
\* receive calls returns that same error message.
C9_PendingAllGetError ==
    [][with_error =>
         \A c \in Consumers :
            /\ (/\ fut[c].value = Pending
                /\ fut'[c].value # Pending
                /\ FirstErrorAfter(fut[c].since) # None)
               => fut'[c].value = FirstErrorAfter(fut[c].since)
            /\ Returns(c) => Last(results'[c]).value = fut[c].value]_vars

\* ---------------------------------------------------------------- C10
\* C10: after an error-classified message has been read from the transport,
\* no receive call on the MessageQueueWithError returns a non-error message
\* that the transport delivered after that error.
C10_NoPostErrorTraffic ==
    with_error =>
    \A c \in Consumers :
        \A i \in 1..Len(results[c]) :
            LET v == results[c][i].value
            IN  (IsMessage(v) /\ ~_error_predicate(v))
                => \A j \in 1..(v.seq - 1) : ~_error_predicate(trace[j])

\* ---------------------------------------------------------------- C11
\* An error-classified message has been read from the transport.
ErrorRead == \E i \in 1..Len(trace) : _error_predicate(trace[i])

\* C11: once an error-classified message has been read from the transport by
\* a MessageQueueWithError, the receive delegate is never invoked again: no
\* read is started on the transport, none completes and none returns at once.
C11_NoReadAfterError ==
    [][(with_error /\ ErrorRead) =>
         /\ suspended' <= suspended
         /\ ~(running = PollTask /\ running' # running)
         /\ trace' = trace
         /\ closed' = closed]_vars

\* ---------------------------------------------------------------- C27
\* The buffer holds its messages in the order the transport delivered them.
InArrivalOrder(messages) ==
    \A i, j \in 1..Len(messages) : i < j => messages[i].seq < messages[j].seq

\* C27: every message a MessageQueue has read from the transport is held in
\* exactly one place, the result of one receive call or the buffer, and the
\* buffer is in arrival order; this also holds after end-of-stream has
\* released the waiters with None.
C27_NeitherLostNorDuplicated ==
    ~with_error =>
      /\ \A i \in 1..Len(trace) : IsMessage(trace[i]) => Copies(trace[i]) = 1
      /\ InArrivalOrder(_stored_messages)

\* End-of-stream has released a waiter with None while two messages no
\* waiter accepted are still buffered and a third was returned.
C27_Witness ==
    /\ ~with_error
    /\ closed
    /\ Len(_stored_messages) = 2
    /\ Len(trace) = 3
    /\ \E c \in Consumers : results[c] # <<>> /\ Last(results[c]).value = None
    /\ \E c \in Consumers : results[c] # <<>> /\ IsMessage(results[c][1].value)

\* ---------------------------------------------------------------- C28
\* No waiter is outstanding: no loop runs, no task is left and no read of the
\* transport is in flight or about to be taken up.
QuietWhenNoWaiter ==
    waiting_receivers = <<>> =>
      /\ ~is_polling
      /\ poll_task = "None"
      /\ ActiveLoops = 0
      /\ Count(ready, PollStartEntry) = 0

\* C28: for a MessageQueue, whenever no waiter is registered the poll loop
\* has stopped (is_polling false, poll_task None, no read of the transport in
\* flight), and a receive call that then finds no buffered match starts a
\* new loop.
C28_LoopStopsWithoutWaiters ==
    [][~with_error =>
         /\ QuietWhenNoWaiter'
         /\ \A c \in Consumers :
               (waiting_receivers = <<>> /\ Calls(c) /\ ~ReturnsAtOnce(c))
               => /\ poll_task' = "Task"
                  /\ Count(ready', PollStartEntry) = 1]_vars

\* One consumer alone has received two messages one call after the other:
\* the loop stopped after the first and a new one read the second.
C28_Witness ==
    /\ ~with_error
    /\ \E c \in Consumers :
          /\ Len(results[c]) = 2
          /\ IsMessage(results[c][1].value)
          /\ IsMessage(results[c][2].value)
          /\ \A b \in Consumers \ {c} : ~HasCalled(b)
    /\ Len(trace) = 2
    /\ waiting_receivers = <<>>
    /\ ~is_polling

\* ---------------------------------------------------------------- C36
\* C36: whenever the waiter list is not empty a poll task exists, and with
\* the event loop running its tasks and the transport answering every read,
\* every receive call that waits is eventually resolved.
C36_WaitersHaveAReader ==
    /\ [](waiting_receivers # <<>> => poll_task # "None")
    /\ \A c \in Consumers :
          (fut[c].value = Pending) ~> (fut[c].value # Pending)

\* A second waiter has registered after the poll loop stopped on the first
\* one's message, and a poll task exists for it.
C36_Witness ==
    /\ trace # <<>>
    /\ ~closed
    /\ waiting_receivers # <<>>
    /\ \A i \in 1..Len(waiting_receivers) :
          fut[waiting_receivers[i].future].since = Len(trace)
    /\ poll_task # "None"
    /\ \E c \in Consumers : results[c] # <<>>

\* ---------------------------------------------------------------- C34
\* Read off a pair of states: the poll loop reads a message in this step.
MessageRead ==
    /\ Len(trace') = Len(trace) + 1
    /\ IsMessage(Last(trace'))

\* A waiter whose caller was cancelled accepts message.
CancelledWaiterAccepts(message) ==
    \E i \in 1..Len(waiting_receivers) :
        /\ fut[waiting_receivers[i].future].value = Cancelled
        /\ Accepts(waiting_receivers[i].predicate, message)

\* C34: when a message arrives that a waiter whose caller was cancelled
\* would have accepted, it is handed to an outstanding waiter or kept in the
\* buffer, and every other outstanding waiter stays pending.
C34_CancelledWaiterLosesNothing ==
    [][(MessageRead /\ CancelledWaiterAccepts(Last(trace'))) =>
          /\ \/ \E c \in Consumers : /\ fut[c].value = Pending
                                     /\ fut'[c].value = Last(trace')
             \/ \E i \in 1..Len(_stored_messages') :
                   _stored_messages'[i] = Last(trace')
          /\ \A c \in Consumers :
                fut[c].value = Pending =>
                   fut'[c].value \in {Pending, Last(trace')}]_vars

\* ================================================================ rtclient
\* The classes of rtclient/__init__.py that read the client's
\* MessageQueueWithError.  Each is studied with one receiver on the queue at
\* a time, so the queue is given by its buffer (_stored_messages), its latch
\* (_error) and what the transport has delivered (trace, closed); the
\* position of the one pending receive is kept in pc.

\* ---------------------------------------------------------------- bounds
MaxServerMessages == 4
MaxOps == 3

\* ---------------------------------------------------------------- server messages
\* A server message is a record [seq, kind, item_id, content_index, value]:
\* kind is its type field, item_id the id predicates compare (item_id,
\* item.id, response_id or response.id, as its type has it), value what it
\* carries (delta, item, part, response status, ...).
NoIndex == -1
ServerMessage(n, type, id, index, v) ==
    [seq |-> n, kind |-> type, item_id |-> id, content_index |-> index,
     value |-> v]

ErrorMessage(n) == ServerMessage(n, "error", "", NoIndex, <<>>)

\* A predicate (lambda m: ...) is the set of [kind, item_id, content_index]
\* it accepts.
Address(m) ==
    [kind |-> m.kind, item_id |-> m.item_id, content_index |-> m.content_index]

Wanted(predicate, m) == Address(m) \in predicate

\* A MessageQueueWithError as one receiver sees it is a record [stored,
\* error, error_kind]: its buffer, its latch, and the type its
\* error_predicate recognises.
\* lambda m: predicate(m) or self._error_predicate(m)
Admits(q, predicate, m) == Wanted(predicate, m) \/ m.kind = q.error_kind

\* MessageQueue._find_and_remove: the index of the first admitted message.
FirstAdmitted(q, predicate) ==
    IF \E i \in 1..Len(q.stored) : Admits(q, predicate, q.stored[i])
    THEN CHOOSE i \in 1..Len(q.stored) :
            /\ Admits(q, predicate, q.stored[i])
            /\ \A j \in 1..(i - 1) : ~Admits(q, predicate, q.stored[j])
    ELSE 0

\* The client's queue (error_predicate: lambda m: m.type == "error").
ClientQueue ==
    [stored |-> _stored_messages, error |-> _error, error_kind |-> "error"]

\* MessageQueueWithError.receive up to the point where it returns or waits:
\* the value returned at once, Pending when a waiter is registered.
ReceivedAtOnce(q, predicate) ==
    IF q.error # None
    THEN q.error
    ELSE LET i == FirstAdmitted(q, predicate)
         IN  IF i # 0 THEN q.stored[i] ELSE Pending

\* if message is not None and self._error_predicate(message): self._error = message
Latch(q, message) ==
    IF message # None /\ message # Pending /\ message.kind = q.error_kind
    THEN [q EXCEPT !.error = message]
    ELSE q

\* The queue after that call.
AfterReceive(q, predicate) ==
    IF q.error # None
    THEN q
    ELSE LET i == FirstAdmitted(q, predicate)
         IN  IF i # 0
             THEN Latch([q EXCEPT !.stored = RemoveAt(@, i)], q.stored[i])
             ELSE q

\* The transport delivers a new message only while the socket is open (and
\* the bound allows); once closed it reports end-of-stream.
NextSeq == Len(trace) + 1
CanDeliver == ~closed /\ Len(trace) < MaxServerMessages

\* The poll loop reads message for the one waiter with this predicate:
\* the waiter's receive returns it (TRUE) or it is buffered (FALSE).
Resolves(q, predicate, message) ==
    message = None \/ Admits(q, predicate, message)

Delivered1(q, predicate, message) ==
    IF message = None THEN q
    ELSE IF Admits(q, predicate, message) THEN Latch(q, message)
    ELSE [q EXCEPT !.stored = Append(@, message)]

\* The transport's part of a step in which message is read.
Read(message) ==
    /\ closed' = (closed \/ message = None)
    /\ trace' = IF message = None THEN trace ELSE Append(trace, message)

CommitClientQueue(q) ==
    /\ _stored_messages' = q.stored
    /\ _error' = q.error

\* The parts of the queue that one receiver at a time does not show.
queueTaskVars == <<with_error, waiting_receivers, is_polling, poll_task, fut,
                   ready, running, suspended, results>>

InitClientQueue ==
    /\ with_error = TRUE
    /\ _stored_messages = <<>>
    /\ waiting_receivers = <<>>
    /\ is_polling = FALSE
    /\ poll_task = "None"
    /\ _error = None
    /\ fut = [c \in Consumers |-> Idle]
    /\ ready = <<>>
    /\ running = NoTask
    /\ suspended = 0
    /\ closed = FALSE
    /\ trace = <<>>
    /\ results = [c \in Consumers |-> <<>>]

\* What an operation of an object did: returned or yielded value, or raised.
Outcome(op, result, v) == [op |-> op, result |-> result, value |-> v]

\* ================================================================ RTFunctionCallItem
ItemIds == {"I1", "I2"}
AnyIndex == {NoIndex, 0, 1}

ArgumentsDelta == "response.function_call_arguments.delta"
ArgumentsDone == "response.function_call_arguments.done"
OutputItemDone == "response.output_item.done"

RECURSIVE Flatten(_)
\* The concatenation of a sequence of strings.
Flatten(chunks) ==
    IF chunks = <<>> THEN <<>> ELSE Head(chunks) \o Flatten(Tail(chunks))

\* The values of the messages of one kind for one item in a sequence.
ValuesOf(messages, type, id) ==
    LET picked == SelectSeq(messages, LAMBDA m : m.kind = type /\ m.item_id = id)
    IN  [i \in 1..Len(picked) |-> picked[i].value]

\* What the server may send next about function call items: an argument
\* delta (a one-character string of its own) for either item, the end of
\* the arguments, the finished item with the arguments sent so far, an error.
FunctionCallMessages ==
    {ServerMessage(NextSeq, ArgumentsDelta, id, NoIndex, <<NextSeq>>) : id \in ItemIds}
    \cup {ServerMessage(NextSeq, ArgumentsDone, "I1", NoIndex, <<>>),
          ServerMessage(NextSeq, OutputItemDone, "I1", NoIndex,
                        Flatten(ValuesOf(trace, ArgumentsDelta, "I1"))),
          ErrorMessage(NextSeq)}

\* The lambda of lines 458-462.
FunctionCallPredicate(id) ==
    {[kind |-> k, item_id |-> id, content_index |-> i] :
        k \in {ArgumentsDelta, ArgumentsDone, OutputItemDone}, i \in AnyIndex}

\* The state a run of the generator leaves: the queue, the item snapshot,
\* and how the run ended ("await": suspended in receive).
Ran(q, item, result, v) == [q |-> q, _item |-> item, result |-> result, value |-> v]

RECURSIVE __inner_iter(_, _), __inner_iter_with(_, _, _)
\* A slip: the generator yields for the arguments.done message as well.
__inner_iter_yielding_done(q, item, message) ==
    IF message = None
    THEN Ran(q, item, "StopAsyncIteration", <<>>)
    ELSE IF message.kind = "error"
    THEN Ran(q, item, "RealtimeException", <<>>)
    ELSE IF message.kind = OutputItemDone
    THEN Ran(q, [item EXCEPT !.arguments = message.value], "StopAsyncIteration", <<>>)
    ELSE Ran(q, item, "yield", message.value)

\* Lines 464-474: the generator goes on with the message receive returned.
__inner_iter_with(q, item, message) ==
    IF message = None
    THEN Ran(q, item, "StopAsyncIteration", <<>>)
    ELSE IF message.kind = "error"
    THEN Ran(q, item, "RealtimeException", <<>>)
    ELSE IF message.kind = OutputItemDone
    THEN Ran(q, [item EXCEPT !.arguments = message.value], "StopAsyncIteration", <<>>)
    ELSE IF message.kind = ArgumentsDelta
    THEN Ran(q, item, "yield", message.value)
    ELSE __inner_iter(q, item)

\* Lines 456-463: the generator runs from the receive call until it yields,
\* ends, raises or waits for the queue.
__inner_iter(q, item) ==
    LET predicate == FunctionCallPredicate(item.id)
        message == ReceivedAtOnce(q, predicate)
    IN  IF message = Pending
        THEN Ran(q, item, "await", <<>>)
        ELSE __inner_iter_with(AfterReceive(q, predicate), item, message)

RECURSIVE wait_for_completion(_)
\* Lines 490-492: async for _ in self.__inner_iter(): pass, from the state
\* ran in which the generator stopped running.
wait_for_completion(ran) ==
    IF ran.result = "yield"
    THEN wait_for_completion(__inner_iter(ran.q, ran._item))
    ELSE IF ran.result = "StopAsyncIteration"
    THEN [ran EXCEPT !.result = "return"]
    ELSE ran

InitFunctionCall ==
    /\ InitClientQueue
    /\ self = [id |-> "I1", __awaited |-> FALSE, __iterated |-> FALSE,
               _item |-> [id |-> "I1", arguments |-> <<>>]]
    /\ pc = "idle"
    /\ out = <<>>

\* The operation op leaves the loop to the caller or to the event loop.
FunctionCallRan(op, ran) ==
    /\ CommitClientQueue(ran.q)
    /\ IF ran.result = "await"
       THEN /\ pc' = op
            /\ out' = out
       ELSE /\ pc' = "idle"
            /\ out' = Append(out, Outcome(op, ran.result, ran.value))

\* A slip: __aiter__ sets its flag before it tests the other one.
RTFunctionCallItem__aiter__flag_first ==
    /\ pc = "idle"
    /\ Len(out) < MaxOps
    /\ self' = [self EXCEPT !.__iterated = TRUE]
    /\ out' = Append(out, Outcome("__aiter__",
                                  IF self.__awaited
                                  THEN "RuntimeError: Cannot iterate after awaiting"
                                  ELSE "return", <<>>))
    /\ UNCHANGED <<pc, _stored_messages, _error, closed, trace>>
    /\ UNCHANGED queueTaskVars

\* Lines 476-480.
RTFunctionCallItem__aiter__ ==
    /\ pc = "idle"
    /\ Len(out) < MaxOps
    /\ IF self.__awaited
       THEN /\ out' = Append(out, Outcome("__aiter__",
                                          "RuntimeError: Cannot iterate after awaiting", <<>>))
            /\ self' = self
       ELSE /\ self' = [self EXCEPT !.__iterated = TRUE]
            /\ out' = Append(out, Outcome("__aiter__", "return", <<>>))
    /\ UNCHANGED <<pc, _stored_messages, _error, closed, trace>>
    /\ UNCHANGED queueTaskVars

\* Lines 482-483: a new generator is made and run to its first yield.
RTFunctionCallItem__anext__ ==
    /\ pc = "idle"
    /\ Len(out) < MaxOps
    /\ LET ran == __inner_iter(ClientQueue, self._item)
       IN  /\ FunctionCallRan("__anext__", ran)
           /\ self' = [self EXCEPT !._item = ran._item]
    /\ UNCHANGED <<closed, trace>>
    /\ UNCHANGED queueTaskVars

\* A slip: the mode flag is set before the other mode is checked.
RTFunctionCallItem__await__flag_first ==
    /\ pc = "idle"
    /\ Len(out) < MaxOps
    /\ IF self.__iterated
       THEN /\ out' = Append(out, Outcome("__await__",
                                          "RuntimeError: Cannot await after iterating", <<>>))
            /\ self' = [self EXCEPT !.__awaited = TRUE]
            /\ UNCHANGED <<pc, _stored_messages, _error>>
       ELSE LET ran == wait_for_completion(__inner_iter(ClientQueue, self._item))
            IN  /\ FunctionCallRan("__await__", ran)
                /\ self' = [self EXCEPT !.__awaited = TRUE, !._item = ran._item]
    /\ UNCHANGED <<closed, trace>>
    /\ UNCHANGED queueTaskVars

\* Lines 485-494.
RTFunctionCallItem__await__ ==
    /\ pc = "idle"
    /\ Len(out) < MaxOps
    /\ IF self.__iterated
       THEN /\ out' = Append(out, Outcome("__await__",
                                          "RuntimeError: Cannot await after iterating", <<>>))
            /\ UNCHANGED <<self, pc, _stored_messages, _error>>
       ELSE LET ran == wait_for_completion(__inner_iter(ClientQueue, self._item))
            IN  /\ FunctionCallRan("__await__", ran)
                /\ self' = [self EXCEPT !.__awaited = TRUE, !._item = ran._item]
    /\ UNCHANGED <<closed, trace>>
    /\ UNCHANGED queueTaskVars

\* The poll loop reads a message while the item's receive is pending.
FunctionCallReceives ==
    /\ pc \in {"__anext__", "__await__"}
    /\ \E message \in IF CanDeliver THEN FunctionCallMessages \cup {None}
                      ELSE IF closed THEN {None} ELSE {} :
          LET predicate == FunctionCallPredicate(self.id)
              q == Delivered1(ClientQueue, predicate, message)
          IN  /\ Read(message)
              /\ IF Resolves(ClientQueue, predicate, message)
                 THEN LET ran == __inner_iter_with(q, self._item, message)
                          end == IF pc = "__await__" THEN wait_for_completion(ran)
                                 ELSE ran
                      IN  /\ FunctionCallRan(pc, end)
                          /\ self' = [self EXCEPT !._item = end._item]
                 ELSE /\ CommitClientQueue(q)
                      /\ UNCHANGED <<self, pc, out>>
    /\ UNCHANGED queueTaskVars

\* The poll loop reads a message for another receiver (RTResponse.__anext__)
\* while no operation of the item is pending: an error is latched, anything
\* else the server sends about function call items is buffered.
OtherReceiverReads ==
    /\ pc = "idle"
    /\ \E message \in IF CanDeliver THEN FunctionCallMessages \cup {None}
                      ELSE {} :
          /\ Read(message)
          /\ CommitClientQueue(Delivered1(ClientQueue, {}, message))
    /\ UNCHANGED <<self, pc, out>>
    /\ UNCHANGED queueTaskVars

NextFunctionCall ==
    \/ RTFunctionCallItem__aiter__
    \/ RTFunctionCallItem__anext__
    \/ RTFunctionCallItem__await__
    \/ FunctionCallReceives
    \/ OtherReceiverReads

SpecFunctionCall == InitFunctionCall /\ [][NextFunctionCall]_vars

\* ---------------------------------------------------------------- C12
\* Steps of the item's caller, read off a pair of states: the operation op
\* is called in this step (and returns, raises or suspends in it).
CallsOp(op) ==
    /\ pc = "idle"
    /\ \/ pc' = op
       \/ Len(out') = Len(out) + 1 /\ Last(out').op = op

\* An iteration step has been taken on the item: __aiter__ has returned, or
\* __anext__ has been called.
IterationStepTaken ==
    \E i \in 1..Len(out) :
        \/ out[i].op = "__anext__"
        \/ out[i].op = "__aiter__" /\ out[i].result = "return"

\* The operation called in this step raises the usage error text at once.
FailsWith(op, text) ==
    out' = Append(out, Outcome(op, text, <<>>))

\* C12: once any iteration step has been taken on an RTFunctionCallItem
\* (__aiter__, or __anext__ including a direct anext(item)), a later await of
\* the item fails with RuntimeError("Cannot await after iterating").
C12_AwaitAfterIterationFails ==
    [][(IterationStepTaken /\ CallsOp("__await__"))
         => FailsWith("__await__", "RuntimeError: Cannot await after iterating")]_vars

\* ---------------------------------------------------------------- C13
\* The item has been awaited: __await__ was called and did not fail with the
\* usage error.
Awaited ==
    \E i \in 1..Len(out) :
        /\ out[i].op = "__await__"
        /\ out[i].result # "RuntimeError: Cannot await after iterating"

\* C13: once an RTFunctionCallItem has been awaited, any later attempt to
\* iterate it (__aiter__ of async for, or __anext__ for the next chunk) fails
\* with RuntimeError("Cannot iterate after awaiting") and yields no chunk.
C13_IterationAfterAwaitFails ==
    [][Awaited =>
         /\ CallsOp("__aiter__")
              => FailsWith("__aiter__", "RuntimeError: Cannot iterate after awaiting")
         /\ CallsOp("__anext__")
              => FailsWith("__anext__", "RuntimeError: Cannot iterate after awaiting")]_vars

\* ---------------------------------------------------------------- C14
UsageErrors ==
    {"RuntimeError: Cannot await after iterating",
     "RuntimeError: Cannot iterate after awaiting"}

\* An operation of the item ends in this step, with this result.
Ends(op, result) ==
    /\ Len(out') = Len(out) + 1
    /\ Last(out').op = op
    /\ Last(out').result = result

\* C14: a usage-error failure of RTFunctionCallItem happens in the step of
\* the offending call: no receive is issued on the queue, nothing is read
\* from the transport, no buffered message is consumed, and the mode flags
\* and the item snapshot stay as they were.
C14_UsageErrorTouchesNothing ==
    [][(\E op \in {"__aiter__", "__await__"}, text \in UsageErrors : Ends(op, text))
         => /\ pc = "idle"
            /\ UNCHANGED <<self, pc, _stored_messages, _error, closed, trace>>
            /\ UNCHANGED queueTaskVars]_vars

\* An await after iteration has failed while a message the item's receive
\* would take sits in the buffer.
C14_Witness ==
    /\ \E i \in 1..Len(out) : out[i].result \in UsageErrors
    /\ \E i \in 1..Len(_stored_messages) :
          Wanted(FunctionCallPredicate(self.id), _stored_messages[i])

\* ---------------------------------------------------------------- C15
IsPrefix(a, b) == Len(a) <= Len(b) /\ SubSeq(b, 1, Len(a)) = a

\* The position in the transport's stream of the first
\* response.output_item.done for item id, past the end when there is none.
FirstDone(id) ==
    IF \E i \in 1..Len(trace) : trace[i].kind = OutputItemDone /\ trace[i].item_id = id
    THEN CHOOSE i \in 1..Len(trace) :
            /\ trace[i].kind = OutputItemDone /\ trace[i].item_id = id
            /\ \A j \in 1..(i - 1) :
                  ~(trace[j].kind = OutputItemDone /\ trace[j].item_id = id)
    ELSE Len(trace) + 1

\* The payloads of the argument deltas for item id that arrived before its
\* response.output_item.done, in arrival order.
DeltasBeforeDone(id) ==
    ValuesOf(SubSeq(trace, 1, FirstDone(id) - 1), ArgumentsDelta, id)

\* The chunks the item's __anext__ has returned, in order.
Yielded ==
    LET picked == SelectSeq(out, LAMBDA o : o.op = "__anext__" /\ o.result = "yield")
    IN  [i \in 1..Len(picked) |-> picked[i].value]

\* The item is being iterated, as by async for: it has not been awaited and
\* no __anext__ has stopped or raised yet.
Iterating ==
    /\ ~self.__awaited
    /\ \A i \in 1..Len(out) : out[i].op = "__anext__" => out[i].result = "yield"

\* The item is awaited instead, for the first time: neither __anext__ nor
\* __await__ has been called before.
OnlyAwaited ==
    /\ pc # "__anext__"
    /\ \A i \in 1..Len(out) : out[i].op \notin {"__anext__", "__await__"}

\* The first response.output_item.done for the item has been taken and has
\* become the item's state, and nothing the item's receive takes that
\* arrived before it is left in the buffer.
FinishedByDone ==
    /\ FirstDone(self.id) <= Len(trace)
    /\ self._item = [id |-> self.id, arguments |-> trace[FirstDone(self.id)].value]
    /\ self._item.arguments = Flatten(DeltasBeforeDone(self.id))
    /\ \A i \in 1..Len(_stored_messages) :
          Wanted(FunctionCallPredicate(self.id), _stored_messages[i])
          => _stored_messages[i].seq > FirstDone(self.id)

\* C15: iterating an RTFunctionCallItem yields exactly the payloads of the
\* response.function_call_arguments.delta messages for its item id that
\* arrive before response.output_item.done, each once and in arrival order,
\* never the arguments.done variant, and stops at response.output_item.done,
\* whose item becomes the item's state; awaiting the item instead consumes
\* the same messages and ends in the same state, so the concatenated chunks
\* equal the arguments obtained by awaiting.
C15_ChunksAreDeltas ==
    [][/\ (Iterating /\ Ends("__anext__", "yield"))
            => IsPrefix(Yielded', DeltasBeforeDone(self.id)')
       /\ (Iterating /\ Ends("__anext__", "StopAsyncIteration") /\ ~closed')
            => /\ Yielded' = DeltasBeforeDone(self.id)'
               /\ FinishedByDone'
               /\ Flatten(Yielded') = self'._item.arguments
       /\ (OnlyAwaited /\ Ends("__await__", "return") /\ ~closed')
            => FinishedByDone']_vars

\* An iteration has yielded a chunk, skipped the arguments.done message and
\* stopped at response.output_item.done.
C15_Witness ==
    /\ ~closed
    /\ Len(Yielded) >= 1
    /\ \E i \in 1..Len(out) :
          out[i].op = "__anext__" /\ out[i].result = "StopAsyncIteration"
    /\ \E i \in 1..Len(trace) :
          /\ trace[i].kind = ArgumentsDone
          /\ i < FirstDone("I1")
    /\ FirstDone("I1") <= Len(trace)

\* ---------------------------------------------------------------- C40
\* C40: the flags __awaited and __iterated of a function call item are never
\* both set, and no step clears a flag that is set.
C40_OneModeOnly ==
    [][/\ ~(self'.__awaited /\ self'.__iterated)
       /\ self.__awaited => self'.__awaited
       /\ self.__iterated => self'.__iterated]_vars

\* The item was awaited, then an attempt to iterate it failed, then it was
\* awaited again: only __awaited is set.
C40_Witness ==
    /\ self.__awaited
    /\ ~self.__iterated
    /\ Len(out) = 3
    /\ out[1].op = "__await__"
    /\ out[2] = Outcome("__aiter__", "RuntimeError: Cannot iterate after awaiting", <<>>)
    /\ out[3].op = "__await__"

\* ================================================================ content parts
\* RTAudioContent (audio_chunks and transcript_chunks over a SharedEndQueue)
\* and RTTextContent (text_chunks over an inner MessageQueueWithError whose
\* error_predicate recognises response.content_part.done).
MaxPartMessages == 4

AudioDelta == "response.audio.delta"
AudioDone == "response.audio.done"
TranscriptDelta == "response.audio_transcript.delta"
TranscriptDone == "response.audio_transcript.done"
TextDelta == "response.text.delta"
TextDone == "response.text.done"
ContentPartDone == "response.content_part.done"

\* base64: a byte n is written as the character n + 64.
b64encode(bytes) == [i \in 1..Len(bytes) |-> bytes[i] + 64]
b64decode(text) == [i \in 1..Len(text) |-> text[i] - 64]

\* The generators of a part of each type, and what each yields from.
Generators(type) ==
    IF type = "audio" THEN {"audio_chunks", "transcript_chunks"} ELSE {"text_chunks"}

DeltaOf(t) ==
    CASE t = "audio_chunks" -> AudioDelta
      [] t = "transcript_chunks" -> TranscriptDelta
      [] OTHER -> TextDelta

DoneOf(t) ==
    CASE t = "audio_chunks" -> AudioDone
      [] t = "transcript_chunks" -> TranscriptDone
      [] OTHER -> TextDone

\* A slip: the done-variant is left out of the predicate.
ChunkPredicateDeltasOnly(t) ==
    {[kind |-> DeltaOf(t), item_id |-> id, content_index |-> i] :
        id \in ItemIds, i \in AnyIndex}

\* lambda m: m.type in [delta, done]            (lines 273, 292, 356)
ChunkPredicate(t) ==
    {[kind |-> k, item_id |-> id, content_index |-> i] :
        k \in {DeltaOf(t), DoneOf(t)}, id \in ItemIds, i \in AnyIndex}

\* is_valid_message(m) and m.item_id == self.item_id
\*                     and m.content_index == self.content_index
ContentPredicate ==
    {[kind |-> k, item_id |-> self._item_id, content_index |-> self._content_index] :
        k \in IF self.type = "audio"
              THEN {AudioDelta, AudioDone, TranscriptDelta, TranscriptDone,
                    ContentPartDone}
              ELSE {TextDelta, TextDone, ContentPartDone}}

\* The values of the messages of one kind for one part in a sequence.
PartValues(messages, type, id, index) ==
    LET picked == SelectSeq(messages, LAMBDA m : /\ m.kind = type
                                                 /\ m.item_id = id
                                                 /\ m.content_index = index)
    IN  [i \in 1..Len(picked) |-> picked[i].value]

\* What the server may send next about content parts: for this part (I1, 0)
\* a delta of each kind of its type (audio in base64), a done-variant, the
\* finished part with the text or transcript sent so far; a delta for the
\* part (I1, 1); an error.
ContentMessages ==
    (IF self.type = "audio"
     THEN {ServerMessage(NextSeq, AudioDelta, "I1", 0, b64encode(<<NextSeq>>)),
           ServerMessage(NextSeq, AudioDone, "I1", 0, <<>>),
           ServerMessage(NextSeq, TranscriptDelta, "I1", 0, <<NextSeq>>),
           ServerMessage(NextSeq, TranscriptDone, "I1", 0, <<>>),
           ServerMessage(NextSeq, ContentPartDone, "I1", 0,
                         Flatten(PartValues(trace, TranscriptDelta, "I1", 0))),
           ServerMessage(NextSeq, TranscriptDelta, "I1", 1, <<NextSeq>>)}
     ELSE {ServerMessage(NextSeq, TextDelta, "I1", 0, <<NextSeq>>),
           ServerMessage(NextSeq, TextDone, "I1", 0, <<>>),
           ServerMessage(NextSeq, ContentPartDone, "I1", 0,
                         Flatten(PartValues(trace, TextDelta, "I1", 0))),
           ServerMessage(NextSeq, TextDelta, "I1", 1, <<NextSeq>>)})
    \cup {ErrorMessage(NextSeq)}

CanDeliverPart == ~closed /\ Len(trace) < MaxPartMessages

\* ---------------------------------------------------------------- SharedEndQueue
\* lambda m: m.type == "response.content_part.done"        (line 231)
_end_predicate(message) == message.kind = ContentPartDone

\* Lines 204-208: the index in _queue of the first message the predicate
\* accepts or that is the end marker, 0 when there is none.
FirstForOrEnd(queue, predicate) ==
    IF \E i \in 1..Len(queue) : Wanted(predicate, queue[i]) \/ _end_predicate(queue[i])
    THEN CHOOSE i \in 1..Len(queue) :
            /\ Wanted(predicate, queue[i]) \/ _end_predicate(queue[i])
            /\ \A j \in 1..(i - 1) :
                  ~(Wanted(predicate, queue[j]) \/ _end_predicate(queue[j]))
    ELSE 0

\* The state in which SharedEndQueue.receive returns message, or waits for
\* its delegate (message = Pending): the client's queue and _queue.
Got(q, queue, message) == [q |-> q, _queue |-> queue, message |-> message]

RECURSIVE SharedEndQueueLoop(_, _, _), SharedEndQueueLoopWith(_, _, _, _)
\* A slip: the end marker is returned without being kept for the other
\* generator.
SharedEndQueueLoopDroppingEnd(q, queue, predicate, message) ==
    IF message = None \/ _error_predicate(message) \/ Wanted(predicate, message)
    THEN Got(q, queue, message)
    ELSE IF _end_predicate(message)
    THEN Got(q, queue, message)
    ELSE SharedEndQueueLoop(q, Append(queue, message), predicate)

\* Lines 212-217: the delegate has returned message.
SharedEndQueueLoopWith(q, queue, predicate, message) ==
    IF message = None \/ _error_predicate(message) \/ Wanted(predicate, message)
    THEN Got(q, queue, message)
    ELSE IF _end_predicate(message)
    THEN Got(q, Append(queue, message), message)
    ELSE SharedEndQueueLoop(q, Append(queue, message), predicate)

\* Lines 210-211: the delegate (_receive_content, lines 254-256) is called.
SharedEndQueueLoop(q, queue, predicate) ==
    LET message == ReceivedAtOnce(q, ContentPredicate)
    IN  IF message = Pending
        THEN Got(q, queue, Pending)
        ELSE SharedEndQueueLoopWith(AfterReceive(q, ContentPredicate), queue,
                                    predicate, message)

\* Lines 203-217 with the lock free.
SharedEndQueueReceive(q, queue, predicate) ==
    LET i == FirstForOrEnd(queue, predicate)
    IN  IF i = 0 THEN SharedEndQueueLoop(q, queue, predicate)
        ELSE IF Wanted(predicate, queue[i])
        THEN Got(q, RemoveAt(queue, i), queue[i])
        ELSE Got(q, queue, queue[i])

\* ---------------------------------------------------------------- RTTextContent's queue
\* The loop of the inner queue never ends: its delegate returns the client
\* queue's latched error at once, every time, and no waiter accepts it.
Spin == [seq |-> 0, kind |-> "never returns"]

\* lambda m: m.type in ["response.text.delta", "response.text.done"]
TextPredicate == ChunkPredicate("text_chunks")

RECURSIVE _poll_content(_, _)
\* MessageQueue._poll_receive of the inner queue (lines 36-41), for its one
\* waiter, with the message its delegate returned.
_poll_content_with(q, inner, message) ==
    IF message = None
    THEN Got(q, inner, None)
    ELSE IF Admits(inner, TextPredicate, message)
    THEN Got(q, Latch(inner, message), message)
    ELSE LET kept == [inner EXCEPT !.stored = Append(@, message)]
         IN  IF q.error # None
             THEN Got(q, kept, Spin)
             ELSE _poll_content(q, kept)

\* The inner queue's loop calls its delegate (_receive_content, lines 337-339).
_poll_content(q, inner) ==
    LET message == ReceivedAtOnce(q, ContentPredicate)
    IN  IF message = Pending
        THEN Got(q, inner, Pending)
        ELSE _poll_content_with(AfterReceive(q, ContentPredicate), inner, message)

\* self.__content_queue.receive(...) of text_chunks (line 355).
TextContentReceive(q, inner) ==
    LET message == ReceivedAtOnce(inner, TextPredicate)
    IN  IF message # Pending
        THEN Got(q, AfterReceive(inner, TextPredicate), message)
        ELSE _poll_content(q, inner)

\* ---------------------------------------------------------------- the generators
\* A slip: the generator yields for the done-variant as well.
chunks_yielding_done(t, message) ==
    IF message = None
    THEN Outcome(t, "StopAsyncIteration", <<>>)
    ELSE IF message.kind = ContentPartDone
    THEN Outcome(t, "StopAsyncIteration", message.value)
    ELSE IF message.kind = "error"
    THEN Outcome(t, "RealtimeException", <<>>)
    ELSE Outcome(t, "yield", message.value)

\* Lines 275-287, 294-306, 358-371: what the generator t does with the
\* message receive returned ("continue": back to receive; the value of a
\* stop at response.content_part.done is the part it carries).
chunks(t, message) ==
    IF message = None
    THEN Outcome(t, "StopAsyncIteration", <<>>)
    ELSE IF message.kind = ContentPartDone
    THEN Outcome(t, "StopAsyncIteration", message.value)
    ELSE IF message.kind = "error"
    THEN Outcome(t, "RealtimeException", <<>>)
    ELSE IF message.kind = DeltaOf(t)
    THEN Outcome(t, "yield", IF t = "audio_chunks" THEN b64decode(message.value)
                             ELSE message.value)
    ELSE Outcome(t, "continue", <<>>)

InitContent ==
    /\ InitClientQueue
    /\ \E type \in {"audio", "text"} :
          /\ self = [type |-> type, _item_id |-> "I1", _content_index |-> 0,
                     _part |-> <<>>,
                     _queue |-> <<>>, _lock |-> "free",
                     _stored_messages |-> <<>>, _error |-> None]
          /\ pc = [t \in Generators(type) |-> "ready"]
          /\ out = [t \in Generators(type) |-> <<>>]

\* RTTextContent.__content_queue.
ContentQueue ==
    [stored |-> self._stored_messages, error |-> self._error,
     error_kind |-> ContentPartDone]

\* The generator t goes on from the state got in which its receive returned
\* or began to wait; content is the part's own queue in that state.
ChunksRan(t, got, content) ==
    /\ CommitClientQueue(got.q)
    /\ IF got.message = Pending
       THEN /\ pc' = [pc EXCEPT ![t] = "receive"]
            /\ self' = [content EXCEPT !._lock = IF self.type = "audio" THEN t ELSE @]
            /\ out' = out
       ELSE IF got.message = Spin
       THEN /\ pc' = [pc EXCEPT ![t] = "spin"]
            /\ self' = content
            /\ out' = out
       ELSE LET o == chunks(t, got.message)
            IN  /\ pc' = [pc EXCEPT ![t] =
                            CASE o.result = "StopAsyncIteration" -> "done"
                              [] o.result = "RealtimeException" -> "raised"
                              [] OTHER -> "ready"]
                /\ self' = [content EXCEPT
                              !._lock = "free",
                              !._part = IF got.message # None
                                           /\ got.message.kind = ContentPartDone
                                        THEN got.message.value ELSE @]
                /\ out' = IF o.result = "continue" THEN out
                          ELSE [out EXCEPT ![t] = Append(@, o)]

WithQueue(queue) == [self EXCEPT !._queue = queue]
WithInner(inner) ==
    [self EXCEPT !._stored_messages = inner.stored, !._error = inner.error]

\* The consumer of generator t asks for its next chunk: the generator runs
\* from its receive call (lines 272, 291, 355); the lock of a SharedEndQueue
\* must be free.
ChunksNext(t) ==
    /\ pc[t] = "ready"
    /\ self._lock = "free"
    /\ IF self.type = "audio"
       THEN LET got == SharedEndQueueReceive(ClientQueue, self._queue, ChunkPredicate(t))
            IN  ChunksRan(t, got, WithQueue(got._queue))
       ELSE LET got == TextContentReceive(ClientQueue, ContentQueue)
            IN  ChunksRan(t, got, WithInner(got._queue))
    /\ UNCHANGED <<closed, trace>>
    /\ UNCHANGED queueTaskVars

\* The poll loop of the client's queue reads a message while the receive of
\* generator t is pending.
ContentReceives(t) ==
    /\ pc[t] = "receive"
    /\ \E message \in IF CanDeliverPart THEN ContentMessages \cup {None}
                      ELSE IF closed THEN {None} ELSE {} :
          LET q == Delivered1(ClientQueue, ContentPredicate, message)
          IN  /\ Read(message)
              /\ IF Resolves(ClientQueue, ContentPredicate, message)
                 THEN IF self.type = "audio"
                      THEN LET got == SharedEndQueueLoopWith(q, self._queue,
                                                             ChunkPredicate(t), message)
                           IN  ChunksRan(t, got, WithQueue(got._queue))
                      ELSE LET got == _poll_content_with(q, ContentQueue, message)
                           IN  ChunksRan(t, got, WithInner(got._queue))
                 ELSE /\ CommitClientQueue(q)
                      /\ UNCHANGED <<self, pc, out>>
    /\ UNCHANGED queueTaskVars

\* The poll loop reads a message for another receiver (RTMessageItem.__anext__)
\* while no generator of the part waits: an error is latched, anything else
\* the server sends about content parts is buffered.
ItemReceiverReads ==
    /\ \A t \in DOMAIN pc : pc[t] # "receive"
    /\ \E t \in DOMAIN pc : pc[t] = "ready"
    /\ \E message \in IF CanDeliverPart THEN ContentMessages \cup {None} ELSE {} :
          /\ Read(message)
          /\ CommitClientQueue(Delivered1(ClientQueue, {}, message))
    /\ UNCHANGED <<self, pc, out>>
    /\ UNCHANGED queueTaskVars

NextContent ==
    \/ \E t \in DOMAIN pc : ChunksNext(t)
    \/ \E t \in DOMAIN pc : ContentReceives(t)
    \/ ItemReceiverReads

SpecContent == InitContent /\ [][NextContent]_vars

\* The consumer of generator t can ask for its next chunk: ChunksNext(t) is
\* enabled.
CanAsk(t) == t \in DOMAIN pc /\ pc[t] = "ready" /\ self._lock = "free"

\* The consumers of the generators keep asking for the next chunk (async for
\* in handle_audio_content, run by asyncio.gather), and the event loop runs
\* every task that can run: weak fairness of ChunksNext(t), that is
\* WF_vars(ChunksNext(t)) with ENABLED spelled out as CanAsk(t).
SpecContentLive ==
    /\ SpecContent
    /\ \A t \in {"audio_chunks", "transcript_chunks", "text_chunks"} :
          \/ []<>(~CanAsk(t))
          \/ []<><<t \in DOMAIN pc /\ ChunksNext(t)>>_vars

\* ---------------------------------------------------------------- C16
\* The position in the transport's stream of the first
\* response.content_part.done for this part, past the end when there is none.
FirstEnd ==
    LET IsEnd(m) == /\ m.kind = ContentPartDone
                    /\ m.item_id = self._item_id
                    /\ m.content_index = self._content_index
    IN  IF \E i \in 1..Len(trace) : IsEnd(trace[i])
        THEN CHOOSE i \in 1..Len(trace) :
                IsEnd(trace[i]) /\ \A j \in 1..(i - 1) : ~IsEnd(trace[j])
        ELSE Len(trace) + 1

\* The payloads of the deltas of generator t's kind addressed to this part
\* that arrived before its response.content_part.done, in arrival order
\* (audio as the bytes its base64 text stands for).
DeltasBeforeEnd(t) ==
    LET values == PartValues(SubSeq(trace, 1, FirstEnd - 1), DeltaOf(t),
                             self._item_id, self._content_index)
    IN  IF t = "audio_chunks"
        THEN [i \in 1..Len(values) |-> b64decode(values[i])]
        ELSE values

\* The chunks generator t has yielded, in order.
ChunksOf(t) ==
    LET picked == SelectSeq(out[t], LAMBDA o : o.result = "yield")
    IN  [i \in 1..Len(picked) |-> picked[i].value]

\* Generator t ends a run in this step, with this result.
GeneratorEnds(t, result) ==
    /\ Len(out'[t]) = Len(out[t]) + 1
    /\ Last(out'[t]).result = result

\* C16: text_chunks, audio_chunks and transcript_chunks each yield exactly
\* the payloads of the delta messages of their own kind addressed to this
\* part's (item_id, content_index) that arrive before
\* response.content_part.done, each once and in arrival order and never a
\* done-variant; the concatenation of the text or transcript chunks equals
\* the value carried by response.content_part.done and exposed by the part.
C16_ChunksAreOwnDeltas ==
    [][\A t \in DOMAIN pc :
          /\ GeneratorEnds(t, "yield")
               => IsPrefix(ChunksOf(t)', DeltasBeforeEnd(t)')
          /\ (GeneratorEnds(t, "StopAsyncIteration") /\ ~closed')
               => /\ FirstEnd' <= Len(trace')
                  /\ ChunksOf(t)' = DeltasBeforeEnd(t)'
                  /\ self'._part = trace'[FirstEnd'].value
                  /\ t # "audio_chunks" => Flatten(ChunksOf(t)') = self'._part]_vars

\* Both generators of an audio part have yielded a chunk and stopped at
\* response.content_part.done, and a done-variant had arrived before it.
C16_Witness ==
    /\ self.type = "audio"
    /\ ~closed
    /\ \A t \in DOMAIN pc : pc[t] = "done" /\ Len(ChunksOf(t)) >= 1
    /\ \E i \in 1..Len(trace) :
          trace[i].kind \in {AudioDone, TranscriptDone} /\ i < FirstEnd

\* ---------------------------------------------------------------- C17
\* The end marker of this part has been taken from the client's queue by
\* the SharedEndQueue, and the stream had not failed before it.
EndTaken ==
    /\ self.type = "audio"
    /\ FirstEnd <= Len(trace)
    /\ \A i \in 1..Len(_stored_messages) : _stored_messages[i].seq # FirstEnd
    /\ \A i \in 1..(FirstEnd - 1) : trace[i].kind # "error"

\* Completions generator t has observed.
Completions(t) ==
    Len(SelectSeq(out[t], LAMBDA o : o.result = "StopAsyncIteration"))

\* After the end marker has been taken no generator waits for the transport
\* or raises, the lock is free, every generator that has not finished finds
\* its next message or the end marker in _queue, and a finished one has
\* observed completion once, after all the deltas of its kind.
C17_NooneWaits ==
    EndTaken =>
      /\ self._lock = "free"
      /\ \A t \in DOMAIN pc :
            /\ pc[t] \in {"ready", "done"}
            /\ pc[t] = "ready" => /\ FirstForOrEnd(self._queue, ChunkPredicate(t)) # 0
                                  /\ Completions(t) = 0
            /\ pc[t] = "done" => /\ Completions(t) = 1
                                 /\ ChunksOf(t) = DeltasBeforeEnd(t)

AllDone == \A t \in DOMAIN pc : pc[t] = "done"

\* C17: for one RTAudioContent whose stream ends with
\* response.content_part.done, audio_chunks and transcript_chunks both
\* terminate, each observing completion exactly once, whichever is driven
\* first and when both are driven concurrently; neither hangs and neither
\* loses a delta of its own kind that arrived while the other was reading.
C17_BothComplete == [](C17_NooneWaits) /\ (EndTaken ~> AllDone)

\* The end marker has been taken and both generators have finished, each
\* after yielding a chunk.
C17_Witness ==
    /\ EndTaken
    /\ AllDone
    /\ \A t \in DOMAIN pc : Len(ChunksOf(t)) >= 1

\* ---------------------------------------------------------------- C23
\* Read off a pair of states: the transport delivers an error message in
\* this step.
ErrorArrives ==
    /\ Len(trace') = Len(trace) + 1
    /\ Last(trace').kind = "error"

\* C23: when a server error message arrives while text_chunks waits for its
\* next message, text_chunks ends by raising RealtimeException.
C23_ErrorEndsTextChunks ==
    [][(self.type = "text" /\ pc["text_chunks"] = "receive" /\ ErrorArrives)
          => GeneratorEnds("text_chunks", "RealtimeException")]_vars

\* ---------------------------------------------------------------- C29
\* Read off a pair of states: the transport delivers the done-variant of
\* generator t for this part while t waits for its next message.
DoneArrives(t) ==
    /\ pc[t] = "receive"
    /\ Len(trace') = Len(trace) + 1
    /\ Last(trace').kind = DoneOf(t)
    /\ Last(trace').item_id = self._item_id
    /\ Last(trace').content_index = self._content_index

\* C29 as stated: a chunk sequence ends when its done-variant arrives (as it
\* does when the end marker arrives).
C29_EndsAtDoneVariant ==
    [][\A t \in DOMAIN pc :
          DoneArrives(t) => GeneratorEnds(t, "StopAsyncIteration")]_vars

\* C29: a chunk sequence skips its done-variant and goes on to its next
\* message; with the stream open it ends only once response.content_part.done
\* for the part has arrived.
C29_EndsAtEndMarkerOnly ==
    [][\A t \in DOMAIN pc :
          /\ DoneArrives(t) => pc'[t] = "ready" /\ out'[t] = out[t]
          /\ (GeneratorEnds(t, "StopAsyncIteration") /\ ~closed')
               => /\ FirstEnd' <= Len(trace')
                  /\ \A i \in 1..Len(_stored_messages') :
                        _stored_messages'[i].seq # FirstEnd']_vars

\* text_chunks has finished at the end marker after yielding a delta that
\* arrived after response.text.done.
C29_Witness ==
    /\ self.type = "text"
    /\ ~closed
    /\ pc["text_chunks"] = "done"
    /\ \E i \in 1..Len(trace) : \E j \in (i + 1)..Len(trace) :
          /\ trace[i].kind = TextDone
          /\ trace[j].kind = TextDelta /\ trace[j].content_index = 0
          /\ j < FirstEnd
          /\ \E k \in 1..Len(ChunksOf("text_chunks")) :
                ChunksOf("text_chunks")[k] = trace[j].value

\* ================================================================ RTResponse
MaxResponseMessages == 5

ResponseCreated == "response.created"
ResponseDone == "response.done"
OutputItemAdded == "response.output_item.added"
ItemCreated == "conversation.item.created"

\* The request RTResponse.cancel sends (line 534).
ResponseCancel(id) == [type |-> "response.cancel", response_id |-> id]

\* The cancellation of the response has been asked for.
CancelSent(response) ==
    \E i \in 1..Len(response._client.sent) :
        response._client.sent[i] = ResponseCancel(response._response.id)

\* What the server may send next about responses: an item added to response
\* R1 (I1, I2) or to R2 (I3), item I1 or I2 created (message items), item I1
\* done, response R1 done with status completed or, once its cancellation
\* has been asked for, cancelled, response R2 done, an error.
ResponseMessages ==
    {ServerMessage(NextSeq, OutputItemAdded, "R1", NoIndex, <<"I1">>),
     ServerMessage(NextSeq, OutputItemAdded, "R1", NoIndex, <<"I2">>),
     ServerMessage(NextSeq, OutputItemAdded, "R2", NoIndex, <<"I3">>),
     ServerMessage(NextSeq, ItemCreated, "I1", NoIndex, <<"message">>),
     ServerMessage(NextSeq, ItemCreated, "I2", NoIndex, <<"message">>),
     ServerMessage(NextSeq, OutputItemDone, "I1", NoIndex, <<>>),
     ServerMessage(NextSeq, ResponseDone, "R1", NoIndex, <<"completed">>),
     ServerMessage(NextSeq, ResponseDone, "R2", NoIndex, <<"completed">>),
     ErrorMessage(NextSeq)}
    \cup IF CancelSent(self)
         THEN {ServerMessage(NextSeq, ResponseDone, "R1", NoIndex, <<"cancelled">>)}
         ELSE {}

CanDeliverResponse == ~closed /\ Len(trace) < MaxResponseMessages

\* The lambda of lines 546-547.
ResponsePredicate(id) ==
    {[kind |-> k, item_id |-> id, content_index |-> i] :
        k \in {ResponseDone, OutputItemAdded}, i \in AnyIndex}

\* A slip: the created message of any item is accepted.
CreatedPredicateAnyItem(id) ==
    {[kind |-> ItemCreated, item_id |-> item, content_index |-> i] :
        item \in {"I1", "I2", "I3"}, i \in AnyIndex}

\* The lambda of line 560.
CreatedPredicate(id) ==
    {[kind |-> ItemCreated, item_id |-> id, content_index |-> i] : i \in AnyIndex}

\* The state a run of __anext__ leaves: the queue, the response object, the
\* local variable message, and how the run ended ("await545", "await559":
\* suspended in the receive of that line).
Ended(q, response, message, result, v) ==
    [q |-> q, self |-> response, message |-> message, result |-> result,
     value |-> v]

\* Lines 562-572: the second receive has returned created_message.
__anext__created(q, response, message, created_message) ==
    IF created_message = None
    THEN Ended(q, response, None, "StopAsyncIteration", <<>>)
    ELSE IF created_message.kind = "error"
    THEN Ended(q, response, None, "RealtimeException", <<>>)
    ELSE IF created_message.value = <<"message">>
    THEN Ended(q, response, None, "RTMessageItem", <<created_message.item_id>>)
    ELSE IF created_message.value = <<"function_call">>
    THEN Ended(q, response, None, "RTFunctionCallItem", <<created_message.item_id>>)
    ELSE Ended(q, response, None, "ValueError", <<>>)

\* A slip: response.done ends the iteration without being recorded.
__anext__forgetting_done(q, response, message) ==
    IF message = None
    THEN Ended(q, response, None, "StopAsyncIteration", <<>>)
    ELSE IF message.kind = "error"
    THEN Ended(q, response, None, "RealtimeException", <<>>)
    ELSE IF message.kind = ResponseDone
    THEN Ended(q, response, None, "StopAsyncIteration", <<>>)
    ELSE LET predicate == CreatedPredicate(message.value[1])
             created_message == ReceivedAtOnce(q, predicate)
         IN  IF created_message = Pending
             THEN Ended(q, response, message, "await559", <<>>)
             ELSE __anext__created(AfterReceive(q, predicate), response, message,
                                   created_message)

\* Lines 549-561: the first receive has returned message.
__anext__message(q, response, message) ==
    IF message = None
    THEN Ended(q, response, None, "StopAsyncIteration", <<>>)
    ELSE IF message.kind = "error"
    THEN Ended(q, response, None, "RealtimeException", <<>>)
    ELSE IF message.kind = ResponseDone
    THEN Ended(q, [response EXCEPT !._done = TRUE,
                                   !._response.status = message.value[1]],
               None, "StopAsyncIteration", <<>>)
    ELSE LET predicate == CreatedPredicate(message.value[1])
             created_message == ReceivedAtOnce(q, predicate)
         IN  IF created_message = Pending
             THEN Ended(q, response, message, "await559", <<>>)
             ELSE __anext__created(AfterReceive(q, predicate), response, message,
                                   created_message)

\* A slip: a response that is done asks the queue again.
__anext__asking_again(q, response) ==
    LET predicate == ResponsePredicate(response._response.id)
        message == ReceivedAtOnce(q, predicate)
    IN  IF message = Pending
        THEN Ended(q, response, None, "await545", <<>>)
        ELSE __anext__message(AfterReceive(q, predicate), response, message)

\* Lines 543-548.
__anext__(q, response) ==
    IF response._done
    THEN Ended(q, response, None, "StopAsyncIteration", <<>>)
    ELSE LET predicate == ResponsePredicate(response._response.id)
             message == ReceivedAtOnce(q, predicate)
         IN  IF message = Pending
             THEN Ended(q, response, None, "await545", <<>>)
             ELSE __anext__message(AfterReceive(q, predicate), response, message)

RECURSIVE drain(_)
\* A slip: the drain stops at the first item the response yields.
drain_one_item(ended) ==
    IF ended.result \in {"RTMessageItem", "RTFunctionCallItem", "StopAsyncIteration"}
    THEN [ended EXCEPT !.result = "return", !.value = <<>>]
    ELSE ended

\* Lines 536-537: async for _ in self: pass, from the state in which a run
\* of __anext__ ended.
drain(ended) ==
    IF ended.result \in {"RTMessageItem", "RTFunctionCallItem"}
    THEN drain(__anext__(ended.q, ended.self))
    ELSE IF ended.result = "StopAsyncIteration"
    THEN [ended EXCEPT !.result = "return"]
    ELSE ended

\* generate_response (lines 697-705) has read response.created for R1 and
\* made the RTResponse from it.
InitResponse ==
    /\ with_error = TRUE
    /\ _stored_messages = <<>>
    /\ waiting_receivers = <<>>
    /\ is_polling = FALSE
    /\ poll_task = "None"
    /\ _error = None
    /\ fut = [c \in Consumers |-> Idle]
    /\ ready = <<>>
    /\ running = NoTask
    /\ suspended = 0
    /\ closed = FALSE
    /\ trace = <<ServerMessage(1, ResponseCreated, "R1", NoIndex, <<"in_progress">>)>>
    /\ results = [c \in Consumers |-> <<>>]
    /\ self = [_response |-> [id |-> "R1", status |-> "in_progress"], _done |-> FALSE,
               _client |-> [sent |-> <<>>]]
    /\ pc = [op |-> "None", at |-> "idle", message |-> None]
    /\ out = <<>>

\* The operation op (__anext__ or cancel) leaves the loop to its caller or
\* to the event loop.
ResponseRan(op, ended) ==
    /\ CommitClientQueue(ended.q)
    /\ self' = ended.self
    /\ IF ended.result \in {"await545", "await559"}
       THEN /\ pc' = [op |-> op, at |-> ended.result, message |-> ended.message]
            /\ out' = out
       ELSE /\ pc' = [op |-> "None", at |-> "idle", message |-> None]
            /\ out' = Append(out, Outcome(op, ended.result, ended.value))

\* Lines 542-573: the caller asks the response for its next item.
RTResponse__anext__ ==
    /\ pc.at = "idle"
    /\ Len(out) < MaxOps
    /\ ResponseRan("__anext__", __anext__(ClientQueue, self))
    /\ UNCHANGED <<closed, trace>>
    /\ UNCHANGED queueTaskVars

\* Line 534: the caller cancels the response; the request is sent.
RTResponse_cancel ==
    /\ pc.at = "idle"
    /\ Len(out) < MaxOps
    /\ self' = [self EXCEPT !._client.sent = Append(@, ResponseCancel(self._response.id))]
    /\ pc' = [op |-> "cancel", at |-> "sent534", message |-> None]
    /\ UNCHANGED <<_stored_messages, _error, out, closed, trace>>
    /\ UNCHANGED queueTaskVars

\* Lines 536-537: the send has completed and cancel starts draining.
RTResponse_cancel_drains ==
    /\ pc.at = "sent534"
    /\ ResponseRan("cancel", drain(__anext__(ClientQueue, self)))
    /\ UNCHANGED <<closed, trace>>
    /\ UNCHANGED queueTaskVars

\* The poll loop reads a message while a receive of __anext__ is pending,
\* called by the caller or by the drain of cancel.
ResponseReceives ==
    /\ pc.at \in {"await545", "await559"}
    /\ \E message \in IF CanDeliverResponse THEN ResponseMessages \cup {None}
                      ELSE IF closed THEN {None} ELSE {} :
          LET predicate == IF pc.at = "await545"
                           THEN ResponsePredicate(self._response.id)
                           ELSE CreatedPredicate(pc.message.value[1])
              q == Delivered1(ClientQueue, predicate, message)
          IN  /\ Read(message)
              /\ IF Resolves(ClientQueue, predicate, message)
                 THEN LET ended == IF pc.at = "await545"
                                   THEN __anext__message(q, self, message)
                                   ELSE __anext__created(q, self, pc.message, message)
                      IN  ResponseRan(pc.op, IF pc.op = "cancel" THEN drain(ended)
                                             ELSE ended)
                 ELSE /\ CommitClientQueue(q)
                      /\ UNCHANGED <<self, pc, out>>
    /\ UNCHANGED queueTaskVars

\* The poll loop reads a message for another receiver of the client (events,
\* a request method) after the response is done and while no operation of
\* the response is pending: an error is latched, anything else is buffered.
ClientReceiverReads ==
    /\ pc.at = "idle"
    /\ self._done
    /\ \E message \in IF CanDeliverResponse THEN ResponseMessages \cup {None}
                      ELSE {} :
          /\ Read(message)
          /\ CommitClientQueue(Delivered1(ClientQueue, {}, message))
    /\ UNCHANGED <<self, pc, out>>
    /\ UNCHANGED queueTaskVars

NextResponse ==
    \/ RTResponse__anext__
    \/ RTResponse_cancel
    \/ RTResponse_cancel_drains
    \/ ResponseReceives
    \/ ClientReceiverReads

SpecResponse == InitResponse /\ [][NextResponse]_vars

\* ---------------------------------------------------------------- C18
\* Scenario A: what the transport delivers.
ScenarioA ==
    <<ServerMessage(1, ResponseCreated, "R1", NoIndex, <<"in_progress">>),
      ServerMessage(2, OutputItemAdded, "R1", NoIndex, <<"I1">>),
      ServerMessage(3, ItemCreated, "I1", NoIndex, <<"message">>),
      ServerMessage(4, OutputItemDone, "I1", NoIndex, <<>>),
      ServerMessage(5, ResponseDone, "R1", NoIndex, <<"completed">>)>>

ItemYielded(id) == Outcome("__anext__", "RTMessageItem", <<id>>)
Stopped == Outcome("__anext__", "StopAsyncIteration", <<>>)

\* The response is iterated and not cancelled.
OnlyIterated == pc.op # "cancel" /\ self._client.sent = <<>>

\* C18: in Scenario A, iterating the RTResponse for R1 yields exactly one
\* item, with id I1, then stops, and afterwards the response's status is
\* completed.
C18_ScenarioA ==
    (IsPrefix(trace, ScenarioA) /\ ~closed /\ OnlyIterated) =>
      /\ \A i \in 1..Len(out) : out[i] = IF i = 1 THEN ItemYielded("I1") ELSE Stopped
      /\ Len(out) >= 1 => Len(trace) >= 3
      /\ Len(out) >= 2 => /\ trace = ScenarioA
                          /\ self._done
                          /\ self._response.status = "completed"
      /\ trace = ScenarioA => /\ pc.at = "idle"
                              /\ Len(out) >= 2

\* Scenario A has been delivered and the iteration has yielded and stopped.
C18_Witness ==
    /\ trace = ScenarioA
    /\ ~closed
    /\ OnlyIterated
    /\ out = <<ItemYielded("I1"), Stopped>>

\* ---------------------------------------------------------------- C21
\* The status of the first response.done for response id in the stream.
FirstDoneStatus(id) ==
    LET dones == SelectSeq(trace, LAMBDA m : m.kind = ResponseDone /\ m.item_id = id)
    IN  IF dones = <<>> THEN <<>> ELSE <<Head(dones).value[1]>>

CancelReturned == Outcome("cancel", "return", <<>>)

\* Read off a pair of states: an operation of the response ends in this step.
ResponseEnds == Len(out') = Len(out) + 1

\* C21: cancel sends response.cancel before it takes anything from the queue
\* or the transport; when it returns with the stream open, response.done for
\* the response has been taken, the response is done and its status is the
\* one that message carries; a following __anext__ raises StopAsyncIteration
\* and takes nothing.
C21_CancelDrains ==
    [][/\ (pc.op = "cancel" /\ <<_stored_messages, _error, trace, closed>>
                                # <<_stored_messages', _error', trace', closed'>>)
            => CancelSent(self)
       /\ (pc.op = "cancel" /\ ResponseEnds /\ Last(out') = CancelReturned /\ ~closed')
            => /\ self'._done
               /\ <<self'._response.status>> = FirstDoneStatus(self._response.id)'
       /\ (out # <<>> /\ Last(out) = CancelReturned /\ ~closed /\ RTResponse__anext__)
            => /\ Last(out') = Stopped
               /\ UNCHANGED <<_stored_messages, _error, trace, self>>]_vars

\* A cancelled response: an item was added and created, then the response
\* ended as cancelled; cancel has returned and the next __anext__ has stopped.
C21_Witness ==
    /\ ~closed
    /\ Len(trace) = 4
    /\ trace[2].kind = OutputItemAdded /\ trace[2].item_id = "R1"
    /\ trace[3].kind = ItemCreated
    /\ trace[4] = ServerMessage(4, ResponseDone, "R1", NoIndex, <<"cancelled">>)
    /\ out = <<CancelReturned, Stopped>>
    /\ self._response.status = "cancelled"

\* ---------------------------------------------------------------- C30
\* The item ids of the output_item.added messages for response id in
\* messages, in order.
AddedIds(messages, id) ==
    LET added == SelectSeq(messages, LAMBDA m : m.kind = OutputItemAdded /\ m.item_id = id)
    IN  [i \in 1..Len(added) |-> added[i].value[1]]

\* The ids of the items the iteration has yielded, in order.
YieldedIds ==
    LET items == SelectSeq(out, LAMBDA o : o.result \in {"RTMessageItem", "RTFunctionCallItem"})
    IN  [i \in 1..Len(items) |-> items[i].value[1]]

\* The position in the stream of the first response.done for response id,
\* past the end when there is none.
FirstResponseDone(id) ==
    IF \E i \in 1..Len(trace) : trace[i].kind = ResponseDone /\ trace[i].item_id = id
    THEN CHOOSE i \in 1..Len(trace) :
            /\ trace[i].kind = ResponseDone /\ trace[i].item_id = id
            /\ \A j \in 1..(i - 1) : ~(trace[j].kind = ResponseDone /\ trace[j].item_id = id)
    ELSE Len(trace) + 1

\* A message of this kind about id has been read and is no longer buffered.
Consumed(kind, id, v) ==
    \E i \in 1..Len(trace) :
        /\ trace[i].kind = kind /\ trace[i].item_id = id /\ trace[i].value = v
        /\ \A j \in 1..Len(_stored_messages) : _stored_messages[j] # trace[i]

\* The stream is open and has carried no error.
Flowing == ~closed /\ \A i \in 1..Len(trace) : trace[i].kind # "error"

\* C30: an iterated response yields an item only when output_item.added for
\* the response and conversation.item.created for the item have both been
\* consumed, whichever arrived first; the items come in the arrival order of
\* their output_item.added messages; response.done is taken after the items
\* added before it and before any added after it.
C30_ItemsInArrivalOrder ==
    (OnlyIterated /\ Flowing) =>
      /\ \A i \in 1..Len(YieldedIds) :
            /\ Consumed(OutputItemAdded, self._response.id, <<YieldedIds[i]>>)
            /\ Consumed(ItemCreated, YieldedIds[i], <<"message">>)
      /\ IsPrefix(YieldedIds, AddedIds(trace, self._response.id))
      /\ self._done =>
            YieldedIds = AddedIds(SubSeq(trace, 1, FirstResponseDone(self._response.id) - 1),
                                  self._response.id)

\* Item I1 was created before it was added to the response, item I2 after:
\* the iteration has yielded I2 and then I1, the order in which they were
\* added.
C30_Witness ==
    /\ OnlyIterated
    /\ Flowing
    /\ Len(trace) = 5
    /\ trace[2].kind = ItemCreated /\ trace[2].item_id = "I1"
    /\ trace[3].kind = OutputItemAdded /\ trace[3].value = <<"I2">>
    /\ trace[5].kind = OutputItemAdded /\ trace[5].value = <<"I1">>
    /\ YieldedIds = <<"I2", "I1">>

\* ---------------------------------------------------------------- C31
\* The buffer holds a message bearing the id of the response that was read
\* after the response.done the response consumed.
LateMessageStored ==
    \E i \in 1..Len(_stored_messages) :
        /\ _stored_messages[i].item_id = self._response.id
        /\ _stored_messages[i].seq > FirstResponseDone(self._response.id)

\* C31: once the response has consumed response.done for its id, it stays
\* done and the snapshot its status, status details, output and usage are
\* read from stays the same in every later step, whatever is read from the
\* connection; a later run of __anext__ or of the drain of cancel ends at once
\* (StopAsyncIteration, or the return of cancel) and leaves the buffer, the
\* error latch and the connection as they were.
C31_DoneIsFinal ==
    [][self._done =>
          /\ self'._done
          /\ self'._response = self._response
          /\ ResponseEnds =>
                /\ Last(out').result \in {"StopAsyncIteration", "return"}
                /\ UNCHANGED <<_stored_messages, _error, trace, closed>>]_vars

\* The response is done, a later response.done or item of its id waits in
\* the buffer, and a next() called after that ended the iteration.
C31_Witness ==
    /\ self._done
    /\ LateMessageStored
    /\ Len(out) >= 2
    /\ Last(out) = Stopped
    /\ pc.at = "idle"
    /\ Len(trace) = MaxResponseMessages

\* ================================================================ RTResponse, two tasks
\* One RTResponse used by two tasks: one iterates it (async for item in
\* response), the other cancels it (await response.cancel()).  The waiters
\* of the client's queue are kept in waiting_receivers, in the order their
\* receive calls registered them; a task the poll loop wakes runs before the
\* next frame is read.
Tasks == {"iterate", "cancel"}

OpOf(t) == IF t = "iterate" THEN "__anext__" ELSE "cancel"

\* The predicate of the receive in which task t waits (lines 546-547, 560).
WaitingFor(response, at) ==
    IF at.at = "await545" THEN ResponsePredicate(response._response.id)
    ELSE CreatedPredicate(at.message.value[1])

\* The response, the queue and the tasks as a run of a task finds them.
PairState ==
    [q |-> ClientQueue, self |-> self, pc |-> pc, out |-> out,
     waiting |-> waiting_receivers]

\* Task t stops running in the state ended: it waits in a receive again
\* (line 77 appends its waiter) or its operation is over.
PairAfter(s, t, ended) ==
    IF ended.result \in {"await545", "await559"}
    THEN [s EXCEPT !.q = ended.q, !.self = ended.self,
                   !.pc[t] = [at |-> ended.result, message |-> ended.message],
                   !.waiting = Append(@, t)]
    ELSE [s EXCEPT !.q = ended.q, !.self = ended.self,
                   !.pc[t] = [at |-> IF t = "cancel" THEN "returned" ELSE "idle",
                              message |-> None],
                   !.out = Append(@, Outcome(OpOf(t), ended.result, ended.value))]

\* The receive of task t returns message: __anext__ runs on, inside the
\* drain when the task is in cancel.
PairResumed(s, t, message) ==
    LET ended == IF s.pc[t].at = "await545"
                 THEN __anext__message(s.q, s.self, message)
                 ELSE __anext__created(s.q, s.self, s.pc[t].message, message)
    IN  PairAfter(s, t, IF t = "cancel" THEN drain(ended) ELSE ended)

\* _notify_end_of_stream and _notify_error: every waiter's receive returns
\* message, in the order of the list.
RECURSIVE PairResumeAll(_, _, _)
PairResumeAll(s, waiters, message) ==
    IF waiters = <<>> THEN s
    ELSE PairResumeAll(PairResumed(s, Head(waiters), message), Tail(waiters), message)

\* The index of the first waiter whose predicate accepts message, 0 if none
\* (_notify_receiver, lines 61-62).
FirstTask(s, message) ==
    LET accepts(i) == Wanted(WaitingFor(s.self, s.pc[s.waiting[i]]), message)
    IN  IF \E i \in 1..Len(s.waiting) : accepts(i)
        THEN CHOOSE i \in 1..Len(s.waiting) :
                accepts(i) /\ \A j \in 1..(i - 1) : ~accepts(j)
        ELSE 0

\* Lines 36-41 and 101-103 with the tasks that wait: end-of-stream and an
\* error go to every waiter, any other message to the first waiter that
\* accepts it or to the buffer.
PairDelivered(s, message) ==
    IF message = None
    THEN PairResumeAll([s EXCEPT !.waiting = <<>>], s.waiting, None)
    ELSE IF message.kind = "error"
    THEN PairResumeAll([s EXCEPT !.waiting = <<>>, !.q = Latch(@, message)],
                       s.waiting, message)
    ELSE LET i == FirstTask(s, message)
         IN  IF i = 0
             THEN [s EXCEPT !.q.stored = Append(@, message)]
             ELSE PairResumed([s EXCEPT !.waiting = RemoveAt(@, i)],
                              s.waiting[i], message)

PairCommit(s) ==
    /\ CommitClientQueue(s.q)
    /\ self' = s.self
    /\ pc' = s.pc
    /\ out' = s.out
    /\ waiting_receivers' = s.waiting

pairTaskVars == <<with_error, is_polling, poll_task, fut, ready, running,
                  suspended, results>>

InitResponsePair ==
    /\ with_error = TRUE
    /\ _stored_messages = <<>>
    /\ waiting_receivers = <<>>
    /\ is_polling = FALSE
    /\ poll_task = "None"
    /\ _error = None
    /\ fut = [c \in Consumers |-> Idle]
    /\ ready = <<>>
    /\ running = NoTask
    /\ suspended = 0
    /\ closed = FALSE
    /\ trace = <<ServerMessage(1, ResponseCreated, "R1", NoIndex, <<"in_progress">>)>>
    /\ results = [c \in Consumers |-> <<>>]
    /\ self = [_response |-> [id |-> "R1", status |-> "in_progress"], _done |-> FALSE,
               _client |-> [sent |-> <<>>]]
    /\ pc = [t \in Tasks |-> [at |-> "idle", message |-> None]]
    /\ out = <<>>

\* Lines 542-573: the iterating task asks the response for its next item.
PairIterates ==
    /\ pc["iterate"].at = "idle"
    /\ Len(out) < MaxOps
    /\ PairCommit(PairAfter(PairState, "iterate", __anext__(ClientQueue, self)))
    /\ UNCHANGED <<closed, trace>>
    /\ UNCHANGED pairTaskVars

\* Line 534: the other task cancels the response; the request is sent.
PairCancels ==
    /\ pc["cancel"].at = "idle"
    /\ self' = [self EXCEPT !._client.sent = Append(@, ResponseCancel(self._response.id))]
    /\ pc' = [pc EXCEPT !["cancel"].at = "sent534"]
    /\ UNCHANGED <<_stored_messages, _error, out, closed, trace, waiting_receivers>>
    /\ UNCHANGED pairTaskVars

\* Lines 536-537: the send has completed and cancel starts draining.
PairCancelDrains ==
    /\ pc["cancel"].at = "sent534"
    /\ PairCommit(PairAfter(PairState, "cancel", drain(__anext__(ClientQueue, self))))
    /\ UNCHANGED <<closed, trace>>
    /\ UNCHANGED pairTaskVars

\* The poll loop reads a message while a task waits.
PairReceives ==
    /\ waiting_receivers # <<>>
    /\ \E message \in IF CanDeliverResponse THEN ResponseMessages \cup {None}
                      ELSE IF closed THEN {None} ELSE {} :
          /\ Read(message)
          /\ PairCommit(PairDelivered(PairState, message))
    /\ UNCHANGED pairTaskVars

NextResponsePair ==
    \/ PairIterates
    \/ PairCancels
    \/ PairCancelDrains
    \/ PairReceives

\* A task whose awaited send has completed is run by the event loop; nothing
\* makes the server send or the caller ask.
SpecResponsePair ==
    InitResponsePair /\ [][NextResponsePair]_vars /\ WF_vars(PairCancelDrains)

\* ---------------------------------------------------------------- C37
\* C37: once response.done for the response has been taken, every task that
\* waits in __anext__ on it completes and a cancel that was called returns.
C37_BothPendingComplete ==
    self._done ~> (/\ waiting_receivers = <<>>
                   /\ pc["cancel"].at \in {"idle", "returned"})

\* ================================================================ RTInputAudioItem
SpeechStopped == "input_audio_buffer.speech_stopped"
TranscriptionCompleted == "conversation.item.input_audio_transcription.completed"
TranscriptionFailed == "conversation.item.input_audio_transcription.failed"

\* The audio_end_ms the n-th message of the stream carries.
AudioEndMs(n) == 100 * n + 100

\* What the server may send next about input audio: speech stopped for item
\* I1 or I2, item I1 created, an error, and, when the session asks for
\* transcription, the transcription of I1 completed or failed. An optional
\* value (audio_end_ms, transcript) is a sequence of at most one element.
InputAudioMessages(has_transcription) ==
    {ServerMessage(NextSeq, SpeechStopped, "I1", NoIndex, <<AudioEndMs(NextSeq)>>),
     ServerMessage(NextSeq, SpeechStopped, "I2", NoIndex, <<AudioEndMs(NextSeq)>>),
     ServerMessage(NextSeq, ItemCreated, "I1", NoIndex, <<"message">>),
     ErrorMessage(NextSeq)}
    \cup IF has_transcription
         THEN {ServerMessage(NextSeq, TranscriptionCompleted, "I1", NoIndex, <<NextSeq>>),
               ServerMessage(NextSeq, TranscriptionFailed, "I1", NoIndex, <<>>)}
         ELSE {}

\* The lambda of lines 158-169.
InputAudioPredicate(id) ==
    {[kind |-> k, item_id |-> id, content_index |-> i] :
        k \in {SpeechStopped, TranscriptionCompleted, TranscriptionFailed, ItemCreated},
        i \in AnyIndex}

RECURSIVE resolve(_, _), resolve_with(_, _, _), resolve_stopped(_, _, _)
\* A slip: speech_stopped is taken without its audio_end_ms being kept.
resolve_stopped_dropping_end(q, item, message) ==
    IF ~item._has_transcription
    THEN Ended(q, item, None, "return", <<>>)
    ELSE resolve(q, item)

\* Lines 174-177.
resolve_stopped(q, item, message) ==
    LET stopped == [item EXCEPT !.audio_end_ms = message.value]
    IN  IF ~stopped._has_transcription
        THEN Ended(q, stopped, None, "return", <<>>)
        ELSE resolve(q, stopped)

\* A slip: conversation.item.created resolves the await whatever the session
\* asked for.
resolve_with_created_returning(q, item, message) ==
    IF message = None
    THEN Ended(q, item, None, "return", <<>>)
    ELSE IF message.kind = "error"
    THEN Ended(q, item, None, "RealtimeException", <<>>)
    ELSE IF message.kind = SpeechStopped
    THEN resolve_stopped(q, item, message)
    ELSE IF message.kind = ItemCreated
    THEN Ended(q, item, None, "return", <<>>)
    ELSE IF message.kind = TranscriptionCompleted
    THEN Ended(q, [item EXCEPT !.transcript = message.value], None, "return", <<>>)
    ELSE IF message.kind = TranscriptionFailed
    THEN Ended(q, item, None, "RealtimeError", <<>>)
    ELSE resolve(q, item)

\* Lines 170-184: receive has returned message.
resolve_with(q, item, message) ==
    IF message = None
    THEN Ended(q, item, None, "return", <<>>)
    ELSE IF message.kind = "error"
    THEN Ended(q, item, None, "RealtimeException", <<>>)
    ELSE IF message.kind = SpeechStopped
    THEN resolve_stopped(q, item, message)
    ELSE IF message.kind = ItemCreated /\ ~item._has_transcription
    THEN Ended(q, item, None, "return", <<>>)
    ELSE IF message.kind = TranscriptionCompleted
    THEN Ended(q, [item EXCEPT !.transcript = message.value], None, "return", <<>>)
    ELSE IF message.kind = TranscriptionFailed
    THEN Ended(q, item, None, "RealtimeError", <<>>)
    ELSE resolve(q, item)

\* Lines 157-169: one turn of the while loop up to its receive.
resolve(q, item) ==
    LET predicate == InputAudioPredicate(item.id)
        message == ReceivedAtOnce(q, predicate)
    IN  IF message = Pending
        THEN Ended(q, item, None, "await", <<>>)
        ELSE resolve_with(AfterReceive(q, predicate), item, message)

\* Lines 140-153, the item made by commit_audio (661-666) or events
\* (717-722) under either session configuration.
InitInputAudio ==
    /\ InitClientQueue
    /\ \E has_transcription \in BOOLEAN :
          self = [id |-> "I1", audio_end_ms |-> <<>>, transcript |-> <<>>,
                  _has_transcription |-> has_transcription]
    /\ pc = "idle"
    /\ out = <<>>

\* resolve leaves the loop to the awaiting caller or to the event loop.
InputAudioRan(ended) ==
    /\ CommitClientQueue(ended.q)
    /\ self' = ended.self
    /\ IF ended.result = "await"
       THEN /\ pc' = "__await__"
            /\ out' = out
       ELSE /\ pc' = "idle"
            /\ out' = Append(out, Outcome("__await__", ended.result, <<>>))

\* Lines 155-186: the caller awaits the item.
RTInputAudioItem__await__ ==
    /\ pc = "idle"
    /\ Len(out) < MaxOps
    /\ InputAudioRan(resolve(ClientQueue, self))
    /\ UNCHANGED <<closed, trace>>
    /\ UNCHANGED queueTaskVars

\* The poll loop reads a message while the item's receive is pending.
InputAudioReceives ==
    /\ pc = "__await__"
    /\ \E message \in IF CanDeliver
                      THEN InputAudioMessages(self._has_transcription) \cup {None}
                      ELSE IF closed THEN {None} ELSE {} :
          LET predicate == InputAudioPredicate(self.id)
              q == Delivered1(ClientQueue, predicate, message)
          IN  /\ Read(message)
              /\ IF Resolves(ClientQueue, predicate, message)
                 THEN InputAudioRan(resolve_with(q, self, message))
                 ELSE /\ CommitClientQueue(q)
                      /\ UNCHANGED <<self, pc, out>>
    /\ UNCHANGED queueTaskVars

\* The poll loop reads a message for another receiver (RTClient.events,
\* line 710) while the item is not awaited: an error is latched, anything
\* else the server sends about input audio is buffered.
EventsReceiverReads ==
    /\ pc = "idle"
    /\ \E message \in IF CanDeliver
                      THEN InputAudioMessages(self._has_transcription) \cup {None}
                      ELSE {} :
          /\ Read(message)
          /\ CommitClientQueue(Delivered1(ClientQueue, {}, message))
    /\ UNCHANGED <<self, pc, out>>
    /\ UNCHANGED queueTaskVars

NextInputAudio ==
    \/ RTInputAudioItem__await__
    \/ InputAudioReceives
    \/ EventsReceiverReads

SpecInputAudio == InitInputAudio /\ [][NextInputAudio]_vars

\* ---------------------------------------------------------------- C19
InSeq(x, s) == \E i \in 1..Len(s) : s[i] = x

\* Read off a pair of states: the await ends with result in this step.
AwaitEnds(result) ==
    /\ Len(out') = Len(out) + 1
    /\ Last(out') = Outcome("__await__", result, <<>>)

\* Read off a pair of states: the await takes message in this step, from the
\* transport or from the buffer.
Takes(message) ==
    /\ InSeq(message, trace')
    /\ ~InSeq(message, _stored_messages')
    /\ InSeq(message, _stored_messages) \/ ~InSeq(message, trace)

\* The messages of a kind the await may take in a step.
Observed(kind) ==
    {trace'[i] : i \in {j \in 1..Len(trace') :
        trace'[j].kind = kind /\ trace'[j].item_id = self.id}}

\* The await resolves with the stream open.
Resolved == AwaitEnds("return") /\ ~closed'

\* C19 as stated: with transcription disabled the await resolves only once
\* speech_stopped for the item's id has been observed, and then audio_end_ms
\* is that message's value and transcript is null.
C19_ResolvesAtSpeechStopped ==
    [][(~self._has_transcription /\ Resolved) =>
          /\ \E m \in Observed(SpeechStopped) : self'.audio_end_ms = m.value
          /\ self'.transcript = <<>>]_vars

\* C19: with transcription disabled the await resolves only in a step that
\* takes speech_stopped or conversation.item.created for the item's id; with
\* speech_stopped audio_end_ms is that message's value, with
\* conversation.item.created it is left as it was; transcript is null.
C19_ResolvesAtStoppedOrCreated ==
    [][(~self._has_transcription /\ Resolved) =>
          /\ \/ \E m \in Observed(SpeechStopped) :
                   Takes(m) /\ self'.audio_end_ms = m.value
             \/ \E m \in Observed(ItemCreated) :
                   Takes(m) /\ self'.audio_end_ms = self.audio_end_ms
          /\ self'.transcript = <<>>]_vars

\* Speech has stopped at 500 ms and the await has resolved with it.
C19_Witness ==
    /\ ~self._has_transcription
    /\ ~closed
    /\ Len(trace) = 4
    /\ trace[4].kind = SpeechStopped /\ trace[4].item_id = self.id
    /\ ~InSeq(trace[4], _stored_messages)
    /\ out = <<Outcome("__await__", "return", <<>>)>>
    /\ self.audio_end_ms = <<AudioEndMs(4)>>
    /\ self.transcript = <<>>

\* ---------------------------------------------------------------- C20
\* The speech_stopped messages for the item that the await has taken.
StoppedTaken ==
    SelectSeq(trace, LAMBDA m : /\ m.kind = SpeechStopped
                                /\ m.item_id = self.id
                                /\ ~InSeq(m, _stored_messages))

\* C20: with transcription enabled the await resolves only in a step that
\* takes transcription.completed for the item's id, and transcript is then
\* that message's transcript; it fails with the transcription only in a step
\* that takes transcription.failed; a step that takes no more than
\* speech_stopped or conversation.item.created ends nothing, and audio_end_ms
\* is the value of the last speech_stopped taken.
C20_ResolvesAtTranscription ==
    [][self._has_transcription =>
          /\ Resolved =>
                \E m \in Observed(TranscriptionCompleted) :
                    Takes(m) /\ self'.transcript = m.value
          /\ AwaitEnds("RealtimeError") =>
                \E m \in Observed(TranscriptionFailed) : Takes(m)
          /\ self'.audio_end_ms = IF StoppedTaken' = <<>> THEN <<>>
                                  ELSE Last(StoppedTaken').value]_vars

\* Speech stopped, the item was created, then its transcription completed:
\* the await has resolved with both values.
C20_Witness ==
    /\ self._has_transcription
    /\ ~closed
    /\ Len(trace) = 3
    /\ trace[1].kind = SpeechStopped /\ trace[1].item_id = self.id
    /\ trace[2].kind = ItemCreated
    /\ trace[3].kind = TranscriptionCompleted
    /\ out = <<Outcome("__await__", "return", <<>>)>>
    /\ self.audio_end_ms = trace[1].value
    /\ self.transcript = trace[3].value

\* ================================================================ RTMessageItem
ContentPartAdded == "response.content_part.added"

\* The types a content part declares.
PartTypes == {"audio", "text"}

\* The parts of item id the server has announced so far.
PartsOf(id) ==
    SelectSeq(trace, LAMBDA m : m.kind = ContentPartAdded /\ m.item_id = id)

\* What the server may send next about message items: a part added to item
\* I1 or I2 (content_index counts the parts of the item), item I1 or I2 done,
\* an error.
ItemMessages ==
    {ServerMessage(NextSeq, ContentPartAdded, id, Len(PartsOf(id)), <<t>>) :
        id \in ItemIds, t \in PartTypes}
    \cup {ServerMessage(NextSeq, OutputItemDone, id, NoIndex, <<"completed">>) :
            id \in ItemIds}
    \cup {ErrorMessage(NextSeq)}

\* A slip: the parts and the end of any item are accepted.
ItemPredicateAnyItem(id) ==
    {[kind |-> k, item_id |-> item, content_index |-> i] :
        k \in {ContentPartAdded, OutputItemDone}, item \in ItemIds,
        i \in NoIndex..MaxServerMessages}

\* The lambda of lines 402-403.
ItemPredicate(id) ==
    {[kind |-> k, item_id |-> id, content_index |-> i] :
        k \in {ContentPartAdded, OutputItemDone}, i \in NoIndex..MaxServerMessages}

\* A slip: end of stream is taken for a failure.
RTMessageItem__anext__failing_at_end(q, item, message) ==
    IF message = None
    THEN Ended(q, item, None, "RealtimeException", <<>>)
    ELSE IF message.kind = "error"
    THEN Ended(q, item, None, "RealtimeException", <<>>)
    ELSE IF message.kind = OutputItemDone
    THEN Ended(q, [item EXCEPT !._item = [id |-> message.item_id,
                                          status |-> message.value[1]]],
               None, "StopAsyncIteration", <<>>)
    ELSE IF message.value = <<"audio">>
    THEN Ended(q, item, None, "RTAudioContent", <<message.seq>>)
    ELSE Ended(q, item, None, "RTTextContent", <<message.seq>>)

\* Lines 405-417: the receive has returned message.  A content object is
\* given by the sequence number of the message it was made from.
RTMessageItem__anext__message(q, item, message) ==
    IF message = None
    THEN Ended(q, item, None, "StopAsyncIteration", <<>>)
    ELSE IF message.kind = "error"
    THEN Ended(q, item, None, "RealtimeException", <<>>)
    ELSE IF message.kind = OutputItemDone
    THEN Ended(q, [item EXCEPT !._item = [id |-> message.item_id,
                                          status |-> message.value[1]]],
               None, "StopAsyncIteration", <<>>)
    ELSE IF message.value = <<"audio">>
    THEN Ended(q, item, None, "RTAudioContent", <<message.seq>>)
    ELSE IF message.value = <<"text">>
    THEN Ended(q, item, None, "RTTextContent", <<message.seq>>)
    ELSE Ended(q, item, None, "ValueError", <<>>)

\* Lines 400-404.  The id of the item is the id of its snapshot (lines
\* 391-393).
RTMessageItem__anext__from(q, item) ==
    LET predicate == ItemPredicate(item._item.id)
        message == ReceivedAtOnce(q, predicate)
    IN  IF message = Pending
        THEN Ended(q, item, None, "await", <<>>)
        ELSE RTMessageItem__anext__message(AfterReceive(q, predicate), item, message)

\* RTResponse.__anext__ has made the item from conversation.item.created for
\* I1 (line 565).
InitMessageItem ==
    /\ InitClientQueue
    /\ self = [_item |-> [id |-> "I1", status |-> "in_progress"]]
    /\ pc = "idle"
    /\ out = <<>>

\* __anext__ leaves the loop to its caller or to the event loop.
MessageItemRan(ended) ==
    /\ CommitClientQueue(ended.q)
    /\ self' = ended.self
    /\ IF ended.result = "await"
       THEN /\ pc' = "__anext__"
            /\ out' = out
       ELSE /\ pc' = "idle"
            /\ out' = Append(out, Outcome("__anext__", ended.result, ended.value))

\* Lines 400-417: the caller asks the item for its next content part.
RTMessageItem__anext__ ==
    /\ pc = "idle"
    /\ Len(out) < MaxOps
    /\ MessageItemRan(RTMessageItem__anext__from(ClientQueue, self))
    /\ UNCHANGED <<closed, trace>>
    /\ UNCHANGED queueTaskVars

\* The poll loop reads a message while the item's receive is pending.
MessageItemReceives ==
    /\ pc = "__anext__"
    /\ \E message \in IF CanDeliver THEN ItemMessages \cup {None}
                      ELSE IF closed THEN {None} ELSE {} :
          LET predicate == ItemPredicate(self._item.id)
              q == Delivered1(ClientQueue, predicate, message)
          IN  /\ Read(message)
              /\ IF Resolves(ClientQueue, predicate, message)
                 THEN MessageItemRan(RTMessageItem__anext__message(q, self, message))
                 ELSE /\ CommitClientQueue(q)
                      /\ UNCHANGED <<self, pc, out>>
    /\ UNCHANGED queueTaskVars

\* The poll loop reads a message for another receiver (a content part's
\* chunk loop, RTResponse.__anext__) while the item is not asked: an error is
\* latched, anything else the server sends about message items is buffered.
PartReceiverReads ==
    /\ pc = "idle"
    /\ \E message \in IF CanDeliver THEN ItemMessages \cup {None} ELSE {} :
          /\ Read(message)
          /\ CommitClientQueue(Delivered1(ClientQueue, {}, message))
    /\ UNCHANGED <<self, pc, out>>
    /\ UNCHANGED queueTaskVars

NextMessageItem ==
    \/ RTMessageItem__anext__
    \/ MessageItemReceives
    \/ PartReceiverReads

SpecMessageItem == InitMessageItem /\ [][NextMessageItem]_vars

\* ---------------------------------------------------------------- C32
\* The messages read from the connection that are no longer buffered, errors
\* apart: those the item has consumed.
TakenByItem ==
    SelectSeq(trace, LAMBDA m : m.kind # "error" /\ ~InSeq(m, _stored_messages))

\* What the finished calls of next() gave, in call order.
ContentYielded ==
    SelectSeq(out, LAMBDA o : o.result \in {"RTAudioContent", "RTTextContent"})

EndsOfItem == SelectSeq(TakenByItem, LAMBDA m : m.kind = OutputItemDone)

\* C32: with the stream open and no error, every finished next() of the item
\* has consumed one message, a content_part.added or an output_item.done of
\* the item's id and never a message of another item; the contents yielded
\* are made from the parts of the item in their arrival order, an
\* RTAudioContent from an audio part and an RTTextContent from a text part;
\* each output_item.done consumed ended the iteration and the snapshot is
\* that of the last one consumed.
C32_PartsInArrivalOrder ==
    Flowing =>
       /\ Len(TakenByItem) = Len(out)
       /\ \A i \in 1..Len(TakenByItem) :
             /\ TakenByItem[i].item_id = "I1"
             /\ TakenByItem[i].kind \in {ContentPartAdded, OutputItemDone}
             /\ out[i].result =
                  IF TakenByItem[i].kind = OutputItemDone THEN "StopAsyncIteration"
                  ELSE IF TakenByItem[i].value = <<"audio">> THEN "RTAudioContent"
                  ELSE "RTTextContent"
       /\ Len(ContentYielded) <= Len(PartsOf("I1"))
       /\ \A i \in 1..Len(ContentYielded) :
             ContentYielded[i].value = <<PartsOf("I1")[i].seq>>
       /\ self._item = IF EndsOfItem = <<>>
                       THEN [id |-> "I1", status |-> "in_progress"]
                       ELSE [id |-> "I1", status |-> Last(EndsOfItem).value[1]]

\* An audio part and a text part of the item were yielded in some order and
\* then the iteration ended at output_item.done, while a message of the other
\* item stayed in the buffer.
C32_Witness ==
    /\ Flowing
    /\ Len(out) = 3
    /\ {out[1].result, out[2].result} = {"RTAudioContent", "RTTextContent"}
    /\ out[3].result = "StopAsyncIteration"
    /\ self._item.status = "completed"
    /\ \E i \in 1..Len(_stored_messages) : _stored_messages[i].item_id = "I2"

\* ================================================================ entities
\* The objects the client hands out, taken together: one run follows one
\* object, a function call item, a content part, a response, an input audio
\* item or a message item.

\* The class of an object, read off its attributes.
EntityOf(object) ==
    IF "__awaited" \in DOMAIN object THEN "RTFunctionCallItem"
    ELSE IF "_lock" \in DOMAIN object THEN "content"
    ELSE IF "_done" \in DOMAIN object THEN "RTResponse"
    ELSE IF "_has_transcription" \in DOMAIN object THEN "RTInputAudioItem"
    ELSE "RTMessageItem"

InitEntity ==
    \/ InitFunctionCall
    \/ InitContent
    \/ InitResponse
    \/ InitInputAudio
    \/ InitMessageItem

NextEntity ==
    \/ EntityOf(self) = "RTFunctionCallItem" /\ NextFunctionCall
    \/ EntityOf(self) = "content" /\ NextContent
    \/ EntityOf(self) = "RTResponse" /\ NextResponse
    \/ EntityOf(self) = "RTInputAudioItem" /\ NextInputAudio
    \/ EntityOf(self) = "RTMessageItem" /\ NextMessageItem

SpecEntity == InitEntity /\ [][NextEntity]_vars

\* ---------------------------------------------------------------- C33
\* An operation of the object waits in a receive.
EntityPending ==
    CASE EntityOf(self) = "RTFunctionCallItem" -> pc \in {"__anext__", "__await__"}
      [] EntityOf(self) = "content" -> \E t \in DOMAIN pc : pc[t] = "receive"
      [] EntityOf(self) = "RTResponse" -> pc.at \in {"await545", "await559"}
      [] EntityOf(self) = "RTInputAudioItem" -> pc = "__await__"
      [] EntityOf(self) = "RTMessageItem" -> pc = "__anext__"

\* Read off a pair of states: the poll loop reads end-of-stream while an
\* operation of the object waits.
EndOfStreamRead == EntityPending /\ closed' /\ trace' = trace

\* C33: when end-of-stream is read while an operation of an entity waits, the
\* operation ends in that step without an error: __anext__ of an RTResponse,
\* an RTMessageItem or an RTFunctionCallItem and a chunk generator raise
\* StopAsyncIteration, an await or a cancel returns; the object's state stays
\* as it was, so an awaited RTInputAudioItem keeps its audio_end_ms and
\* transcript.
C33_EndOfStreamCompletes ==
    [][EndOfStreamRead =>
          CASE EntityOf(self) = "content" ->
                 \A t \in DOMAIN pc :
                    pc[t] = "receive" =>
                       /\ pc'[t] = "done"
                       /\ Len(out'[t]) = Len(out[t]) + 1
                       /\ Last(out'[t]).result = "StopAsyncIteration"
                       /\ self'._part = self._part
            [] EntityOf(self) = "RTResponse" ->
                 /\ pc'.at = "idle"
                 /\ Len(out') = Len(out) + 1
                 /\ Last(out').result = IF pc.op = "cancel" THEN "return"
                                        ELSE "StopAsyncIteration"
                 /\ self' = self
            [] OTHER ->
                 /\ pc' = "idle"
                 /\ Len(out') = Len(out) + 1
                 /\ Last(out').result = IF pc = "__await__" THEN "return"
                                        ELSE "StopAsyncIteration"
                 /\ self' = self]_vars

\* An input audio item with transcription was awaited, speech_stopped was
\* taken (audio_end_ms is set), then the stream ended and the await returned
\* with no transcript.
C33_Witness ==
    /\ EntityOf(self) = "RTInputAudioItem"
    /\ self._has_transcription
    /\ closed
    /\ self.audio_end_ms # <<>>
    /\ self.transcript = <<>>
    /\ Len(trace) = 1
    /\ out = <<Outcome("__await__", "return", <<>>)>>

\* ================================================================ RTClient
MaxClientMessages == 3
MaxRequests == 3

\* The request methods of RTClient and the generator events.
RequestMethods ==
    {"connect", "configure", "commit_audio", "clear_audio", "send_item",
     "remove_item", "generate_response"}
ClientMethods == RequestMethods \cup {"events"}

AnyId == {"", "I1", "I2", "I3", "R1", "R2"}

\* All the messages of these types, or those about one id.
OfTypes(types, ids) ==
    {[kind |-> k, item_id |-> id, content_index |-> i] :
        k \in types, id \in ids, i \in AnyIndex}

\* A slip: connect and configure take either session message.
PredicateOfEitherSession(method) ==
    CASE method \in {"connect", "configure"} ->
            OfTypes({"session.created", "session.updated"}, AnyId)
      [] method = "commit_audio" -> OfTypes({"input_audio_buffer.committed"}, AnyId)
      [] method = "clear_audio" -> OfTypes({"input_audio_buffer.cleared"}, AnyId)
      [] method = "send_item" -> OfTypes({ItemCreated}, {"I1"})
      [] method = "remove_item" -> OfTypes({"conversation.item.deleted"}, {"I1"})
      [] method = "generate_response" -> OfTypes({ResponseCreated}, AnyId)
      [] OTHER -> OfTypes({"input_audio_buffer.speech_started", ResponseCreated}, AnyId)

\* The predicate each method passes to receive (lines 644, 657, 670, 679-681,
\* 691-693, 699, 710-712, 730); send_item and remove_item are called for
\* item I1.
PredicateOf(method) ==
    CASE method = "connect" -> OfTypes({"session.created"}, AnyId)
      [] method = "configure" -> OfTypes({"session.updated"}, AnyId)
      [] method = "commit_audio" -> OfTypes({"input_audio_buffer.committed"}, AnyId)
      [] method = "clear_audio" -> OfTypes({"input_audio_buffer.cleared"}, AnyId)
      [] method = "send_item" -> OfTypes({ItemCreated}, {"I1"})
      [] method = "remove_item" -> OfTypes({"conversation.item.deleted"}, {"I1"})
      [] method = "generate_response" -> OfTypes({ResponseCreated}, AnyId)
      [] OTHER -> OfTypes({"input_audio_buffer.speech_started", ResponseCreated}, AnyId)

\* The request each method sends before it receives; connect opens the
\* socket and events sends nothing.
RequestOf(method) ==
    CASE method = "configure" -> <<"session.update">>
      [] method = "commit_audio" -> <<"input_audio_buffer.commit">>
      [] method = "clear_audio" -> <<"input_audio_buffer.clear">>
      [] method = "send_item" -> <<"conversation.item.create">>
      [] method = "remove_item" -> <<"conversation.item.delete">>
      [] method = "generate_response" -> <<"response.create">>
      [] OTHER -> <<>>

\* What the server may send next to the client: a session (created or
\* updated, each a new one), the acknowledgements of the requests, a turn it
\* starts itself, an error. An optional value is a sequence of at most one
\* element.
ClientMessages ==
    {ServerMessage(NextSeq, "session.created", "", NoIndex, <<NextSeq>>),
     ServerMessage(NextSeq, "session.updated", "", NoIndex, <<NextSeq>>),
     ServerMessage(NextSeq, "input_audio_buffer.committed", "I1", NoIndex, <<>>),
     ServerMessage(NextSeq, "input_audio_buffer.cleared", "", NoIndex, <<>>),
     ServerMessage(NextSeq, ItemCreated, "I1", NoIndex, <<"message">>),
     ServerMessage(NextSeq, "conversation.item.deleted", "I1", NoIndex, <<>>),
     ServerMessage(NextSeq, ResponseCreated, "R1", NoIndex, <<"in_progress">>),
     ServerMessage(NextSeq, "input_audio_buffer.speech_started", "I2", NoIndex, <<>>),
     ErrorMessage(NextSeq)}

CanDeliverClient == ~closed /\ Len(trace) < MaxClientMessages

\* A slip: the session is stored before the error check.
RequestGotStoringFirst(method, q, client, message) ==
    IF message = None
    THEN Ended(q, client, None, "AttributeError", <<>>)
    ELSE IF method \in {"connect", "configure"}
    THEN LET stored == [client EXCEPT !.session = message.value]
         IN  IF message.kind = "error"
             THEN Ended(q, stored, None, "RealtimeException", <<message.seq>>)
             ELSE Ended(q, stored, None, "return", message.value)
    ELSE IF message.kind = "error"
    THEN Ended(q, client, None, "RealtimeException", <<message.seq>>)
    ELSE Ended(q, client, None, "return", <<>>)

\* What a request method does with the message its receive returned (lines
\* 645-649, 658-666, 671-673, 682-686, 694-696, 700-705, 731-733): no method
\* tests for None before it reads message.type.
RequestGot(method, q, client, message) ==
    IF message = None
    THEN Ended(q, client, None, "AttributeError", <<>>)
    ELSE IF message.kind = "error"
    THEN Ended(q, client, None, "RealtimeException", <<message.seq>>)
    ELSE CASE method = "connect" ->
                Ended(q, [client EXCEPT !.session = message.value], None, "return", <<>>)
           [] method = "configure" ->
                Ended(q, [client EXCEPT !.session = message.value], None, "return",
                      message.value)
           [] method = "commit_audio" ->
                IF client.session = <<>>
                THEN Ended(q, client, None, "AttributeError", <<>>)
                ELSE Ended(q, client, None, "RTInputAudioItem", <<message.item_id>>)
           [] method = "send_item" ->
                Ended(q, client, None, "return", <<message.item_id>>)
           [] method = "generate_response" ->
                Ended(q, client, None, "RTResponse", <<message.item_id>>)
           [] OTHER -> Ended(q, client, None, "return", <<>>)

\* Lines 713-726: what events does with the message its receive returned.
EventsGot(q, client, message) ==
    IF message = None
    THEN Ended(q, client, None, "StopAsyncIteration", <<>>)
    ELSE IF message.kind = "input_audio_buffer.speech_started"
    THEN IF client.session = <<>>
         THEN Ended(q, client, None, "AttributeError", <<>>)
         ELSE Ended(q, client, None, "RTInputAudioItem", <<message.item_id>>)
    ELSE IF message.kind = ResponseCreated
    THEN Ended(q, client, None, "RTResponse", <<message.item_id>>)
    ELSE Ended(q, client, None, "ValueError", <<>>)

\* A slip: every method leaves quietly at end of stream, as events does.
Got1EndingQuietly(method, q, client, message) ==
    IF method = "events" \/ message = None THEN EventsGot(q, client, message)
    ELSE RequestGot(method, q, client, message)

Got1(method, q, client, message) ==
    IF method = "events" THEN EventsGot(q, client, message)
    ELSE RequestGot(method, q, client, message)

\* The method runs from its receive on.
Receiving(method, q, client) ==
    LET message == ReceivedAtOnce(q, PredicateOf(method))
    IN  IF message = Pending
        THEN Ended(q, client, None, "await", <<>>)
        ELSE Got1(method, AfterReceive(q, PredicateOf(method)), client, message)

\* Lines 577-591: a client that is not connected.
InitClient ==
    /\ InitClientQueue
    /\ self = [session |-> <<>>, _client |-> [ws |-> "None", sent |-> <<>>]]
    /\ pc = [op |-> "None", at |-> "idle"]
    /\ out = <<>>

ClientRan(method, ended) ==
    /\ CommitClientQueue(ended.q)
    /\ IF ended.result = "await"
       THEN /\ pc' = [op |-> method, at |-> "receive"]
            /\ out' = out
       ELSE /\ pc' = [op |-> "None", at |-> "idle"]
            /\ out' = Append(out, Outcome(method, ended.result, ended.value))

\* connect (lines 728-733), the request methods (lines 602-705) once the
\* socket is open, and one step of the generator of events (lines 707-726):
\* the method sends its request and runs up to its receive or to its end.
Call(method) ==
    /\ pc.at = "idle"
    /\ Len(out) < MaxRequests
    /\ method = "connect" <=> self._client.ws = "None"
    /\ LET client == [self EXCEPT !._client.ws = "open",
                                  !._client.sent = @ \o RequestOf(method)]
           ended == Receiving(method, ClientQueue, client)
       IN  /\ ClientRan(method, ended)
           /\ self' = ended.self
    /\ UNCHANGED <<closed, trace>>
    /\ UNCHANGED queueTaskVars

\* The poll loop reads a message, one of those this server sends, while the
\* receive of a method is pending.
ClientReceivesFrom(server) ==
    /\ pc.at = "receive"
    /\ \E message \in IF CanDeliverClient THEN server \cup {None}
                      ELSE IF closed THEN {None} ELSE {} :
          LET predicate == PredicateOf(pc.op)
              q == Delivered1(ClientQueue, predicate, message)
          IN  /\ Read(message)
              /\ IF Resolves(ClientQueue, predicate, message)
                 THEN LET ended == Got1(pc.op, q, self, message)
                      IN  /\ ClientRan(pc.op, ended)
                          /\ self' = ended.self
                 ELSE /\ CommitClientQueue(q)
                      /\ UNCHANGED <<self, pc, out>>
    /\ UNCHANGED queueTaskVars

ClientReceives == ClientReceivesFrom(ClientMessages)

NextClient ==
    \/ \E method \in ClientMethods : Call(method)
    \/ ClientReceives

SpecClient == InitClient /\ [][NextClient]_vars

\* ---------------------------------------------------------------- unacknowledged
\* The client on a deployment whose server never sends session.updated.
UnacknowledgedMessages == {m \in ClientMessages : m.kind # "session.updated"}

UnacknowledgedReceives == ClientReceivesFrom(UnacknowledgedMessages)

NextUnacknowledged ==
    \/ \E method \in ClientMethods : Call(method)
    \/ UnacknowledgedReceives

SpecUnacknowledged == InitClient /\ [][NextUnacknowledged]_vars

\* ---------------------------------------------------------------- two tasks
\* A connected client used by two tasks: one consumes events(), the other
\* calls generate_response.  The waiters of the client's queue are kept in
\* waiting_receivers, in the order their receive calls registered them; a
\* task the poll loop wakes runs before the next frame is read.
ClientTasks == {"events", "generate_response"}

\* How many messages of this kind about id the server has sent.
Sent(kind, id) ==
    Cardinality({i \in 1..Len(trace) : trace[i].kind = kind /\ trace[i].item_id = id})

\* How many response.create requests the client has sent.
Requested ==
    Cardinality({i \in 1..Len(self._client.sent) : self._client.sent[i] = "response.create"})

\* What the server may send next about turns: response.created for a
\* response the client has asked for and that is not yet created (R1), for a
\* response the server starts itself after detecting a turn (R2, once),
\* speech_started, an error.
TurnMessages ==
    (IF Sent(ResponseCreated, "R1") < Requested
     THEN {ServerMessage(NextSeq, ResponseCreated, "R1", NoIndex, <<"in_progress">>)}
     ELSE {})
    \cup (IF Sent(ResponseCreated, "R2") = 0
          THEN {ServerMessage(NextSeq, ResponseCreated, "R2", NoIndex, <<"in_progress">>)}
          ELSE {})
    \cup {ServerMessage(NextSeq, "input_audio_buffer.speech_started", "I2", NoIndex, <<>>),
          ErrorMessage(NextSeq)}

ClientPairState ==
    [q |-> ClientQueue, self |-> self, pc |-> pc, out |-> out,
     waiting |-> waiting_receivers]

\* Task t stops running in the state ended: it waits in receive (line 77
\* appends its waiter) or its call ends.
ClientPairAfter(s, t, ended) ==
    IF ended.result = "await"
    THEN [s EXCEPT !.q = ended.q, !.self = ended.self, !.pc[t] = "receive",
                   !.waiting = Append(@, t)]
    ELSE [s EXCEPT !.q = ended.q, !.self = ended.self, !.pc[t] = "idle",
                   !.out = Append(@, Outcome(t, ended.result, ended.value))]

\* _notify_end_of_stream and _notify_error: every waiter's receive returns
\* message, in the order of the list.
RECURSIVE ClientPairResumeAll(_, _, _)
ClientPairResumeAll(s, waiters, message) ==
    IF waiters = <<>> THEN s
    ELSE ClientPairResumeAll(
            ClientPairAfter(s, Head(waiters), Got1(Head(waiters), s.q, s.self, message)),
            Tail(waiters), message)

\* The index of the first waiter whose predicate accepts message, 0 if none
\* (_notify_receiver, lines 61-62).
FirstClientTask(s, message) ==
    LET accepts(i) == Wanted(PredicateOf(s.waiting[i]), message)
    IN  IF \E i \in 1..Len(s.waiting) : accepts(i)
        THEN CHOOSE i \in 1..Len(s.waiting) :
                accepts(i) /\ \A j \in 1..(i - 1) : ~accepts(j)
        ELSE 0

\* Lines 36-41 and 101-103 with the tasks that wait.
ClientPairDelivered(s, message) ==
    IF message = None
    THEN ClientPairResumeAll([s EXCEPT !.waiting = <<>>], s.waiting, None)
    ELSE IF message.kind = "error"
    THEN ClientPairResumeAll([s EXCEPT !.waiting = <<>>, !.q = Latch(@, message)],
                             s.waiting, message)
    ELSE LET i == FirstClientTask(s, message)
         IN  IF i = 0
             THEN [s EXCEPT !.q.stored = Append(@, message)]
             ELSE ClientPairAfter([s EXCEPT !.waiting = RemoveAt(@, i)], s.waiting[i],
                                  Got1(s.waiting[i], s.q, s.self, message))

\* connect has returned with the session of session.created (lines 728-733).
InitClientPair ==
    /\ with_error = TRUE
    /\ _stored_messages = <<>>
    /\ waiting_receivers = <<>>
    /\ is_polling = FALSE
    /\ poll_task = "None"
    /\ _error = None
    /\ fut = [c \in Consumers |-> Idle]
    /\ ready = <<>>
    /\ running = NoTask
    /\ suspended = 0
    /\ closed = FALSE
    /\ trace = <<ServerMessage(1, "session.created", "", NoIndex, <<1>>)>>
    /\ results = [c \in Consumers |-> <<>>]
    /\ self = [session |-> <<1>>, _client |-> [ws |-> "open", sent |-> <<>>]]
    /\ pc = [t \in ClientTasks |-> "idle"]
    /\ out = <<>>

\* Task t calls its method: one step of the generator of events (lines
\* 707-726) or generate_response (lines 697-705).
ClientTaskCalls(t) ==
    /\ pc[t] = "idle"
    /\ Len(out) < MaxRequests
    /\ LET client == [self EXCEPT !._client.sent = @ \o RequestOf(t)]
           s == ClientPairAfter(ClientPairState, t, Receiving(t, ClientQueue, client))
       IN  /\ CommitClientQueue(s.q)
           /\ self' = s.self
           /\ pc' = s.pc
           /\ out' = s.out
           /\ waiting_receivers' = s.waiting
    /\ UNCHANGED <<closed, trace>>
    /\ UNCHANGED pairTaskVars

\* The poll loop reads a message while a task waits.
ClientTasksReceive ==
    /\ waiting_receivers # <<>>
    /\ \E message \in IF CanDeliverClient THEN TurnMessages \cup {None}
                      ELSE IF closed THEN {None} ELSE {} :
          LET s == ClientPairDelivered(ClientPairState, message)
          IN  /\ Read(message)
              /\ CommitClientQueue(s.q)
              /\ self' = s.self
              /\ pc' = s.pc
              /\ out' = s.out
              /\ waiting_receivers' = s.waiting
    /\ UNCHANGED pairTaskVars

NextClientPair ==
    \/ \E t \in ClientTasks : ClientTaskCalls(t)
    \/ ClientTasksReceive

SpecClientPair == InitClientPair /\ [][NextClientPair]_vars

\* ---------------------------------------------------------------- C38
\* The handles the client has given out for response id.
Handles(id) ==
    Cardinality({i \in 1..Len(out) : out[i].result = "RTResponse" /\ out[i].value = <<id>>})

\* This method has given out a handle for response id.
Handle(method, id) ==
    \E i \in 1..Len(out) :
        /\ out[i].op = method
        /\ out[i].result = "RTResponse"
        /\ out[i].value = <<id>>

\* C38: with events() consumed by one task and generate_response called by
\* another, every response.created message gives at most one RTResponse
\* handle, and generate_response never returns the response the server
\* started itself (R2) while the one the client asked for (R1) goes to
\* events().
C38_OwnResponse ==
    /\ \A id \in {"R1", "R2"} : Handles(id) <= Sent(ResponseCreated, id)
    /\ ~(Handle("events", "R1") /\ Handle("generate_response", "R2"))

\* ---------------------------------------------------------------- C22
\* Read off a pair of states: a method of the client ends in this step with
\* the error of the queue, latched before or in this step.
EndsOnError(methods) ==
    /\ ResponseEnds
    /\ Last(out').op \in methods
    /\ _error' # None

C24_EventsRaisesRealtimeException ==
    [][(pc.op = "events" /\ pc.at = "receive" /\ ErrorArrives) =>
          /\ ResponseEnds
          /\ Last(out') = Outcome("events", "RealtimeException", <<Last(trace').seq>>)]_vars

\* ---------------------------------------------------------------- C25
\* Read off a pair of states: method ends in this step by returning, having
\* taken a message of this kind that carries the session the client now has.
SessionTaken(method, kind) ==
    /\ ResponseEnds
    /\ Last(out').op = method
    /\ Last(out').result = "return"
    /\ \E i \in 1..Len(trace') :
          /\ trace'[i].kind = kind
          /\ Takes(trace'[i])
          /\ self'.session = trace'[i].value

\* C25: client.session changes only in a step in which connect takes
\* session.created or configure takes session.updated, and is then the
\* session that message carries; a connect or configure that ends otherwise,
\* and every other method, leaves it as it was.
C25_SessionFrame ==
    [][/\ self'.session # self.session =>
             \/ SessionTaken("connect", "session.created")
             \/ SessionTaken("configure", "session.updated")
       /\ (ResponseEnds /\ Last(out').result # "return") =>
             self'.session = self.session]_vars

\* A connected client has been configured: its session is no longer the one
\* of session.created but the one carried by session.updated.
C25_Witness ==
    /\ Len(out) = 2
    /\ out[1] = Outcome("connect", "return", <<>>)
    /\ out[2].op = "configure" /\ out[2].result = "return"
    /\ Len(trace) >= 2
    /\ Last(trace).kind = "session.updated"
    /\ self.session = Last(trace).value
    /\ self.session # trace[1].value

\* ---------------------------------------------------------------- C35
\* Read off a pair of states: configure is called in this step (its request
\* is sent) on a connected client whose stream is open and free of errors.
ConfigureCalled ==
    /\ pc.at = "idle"
    /\ self.session # <<>>
    /\ Flowing
    /\ Len(self'._client.sent) = Len(self._client.sent) + 1
    /\ Last(self'._client.sent) = "session.update"

\* C35: on a deployment that never sends session.updated, configure ends in
\* the run in which it is called, without waiting in receive: it returns a
\* session and stores it as client.session.
C35_ConfigureWithoutAcknowledgement ==
    [][ConfigureCalled =>
          /\ ResponseEnds
          /\ Last(out').op = "configure"
          /\ Last(out').result = "return"
          /\ Last(out').value # <<>>
          /\ self'.session = Last(out').value]_vars

\* ---------------------------------------------------------------- C39
\* Read off a pair of states: the poll loop reads end-of-stream while a
\* request method waits for its acknowledgement.
RequestMeetsEnd ==
    /\ pc.at = "receive"
    /\ pc.op \in RequestMethods
    /\ closed'
    /\ trace' = trace

\* C39: a request method that waits for its acknowledgement when the stream
\* ends fails in that step (with AttributeError, raised where it reads
\* message.type), gives out no entity and leaves client.session as it was.
C39_EndOfStreamFailsRequest ==
    [][RequestMeetsEnd =>
          /\ ResponseEnds
          /\ Last(out') = Outcome(pc.op, "AttributeError", <<>>)
          /\ self'.session = self.session]_vars

\* The stream ended while generate_response waited on a connected client:
\* the call failed and the session is still the one of session.created.
C39_Witness ==
    /\ closed
    /\ Len(trace) = 1
    /\ self.session = trace[1].value
    /\ Len(out) = 2
    /\ Last(out) = Outcome("generate_response", "AttributeError", <<>>)

\* ================================================================ generate_id
MaxPrefixLen == 33
TokenBytes == 24
IdLength == 32

\* A string is a sequence of characters. The characters of URL-safe base64
\* that the model tells apart.
UrlSafe == <<"A", "z", "0", "-", "_">>

\* The length of the unpadded URL-safe base64 text of nbytes bytes.
Base64Length(nbytes) == (4 * nbytes + 2) \div 3

\* secrets.token_urlsafe(nbytes): one of the texts it can return, each of
\* Base64Length(nbytes) characters.
token_urlsafe(nbytes) ==
    {[i \in 1..Base64Length(nbytes) |-> UrlSafe[((i * k + j) % Len(UrlSafe)) + 1]] :
        k \in 0..3, j \in 0..3}

\* text[n:] of Python: empty when n is past the end.
From(text, n) == SubSeq(text, n + 1, Len(text))

\* A slip: the suffix is appended whole.
generate_id_whole_suffix(prefix, suffix) == prefix \o <<"-">> \o suffix

\* Line 9, with the suffix line 8 drew.
generate_id(prefix, suffix) == prefix \o <<"-">> \o From(suffix, Len(prefix) + 1)

\* The prefixes tried: every length up to the bound, of letters or of dashes.
Prefixes == {[i \in 1..n |-> c] : n \in 0..MaxPrefixLen, c \in {"t", "-"}}

InitId ==
    /\ InitClientQueue
    /\ self \in [prefix : Prefixes]
    /\ pc = "call"
    /\ out = <<>>

\* Lines 7-9: generate_id(prefix) returns.
GenerateId ==
    /\ pc = "call"
    /\ \E suffix \in token_urlsafe(TokenBytes) :
          out' = <<generate_id(self.prefix, suffix)>>
    /\ pc' = "returned"
    /\ UNCHANGED <<self, _stored_messages, _error, closed, trace>>
    /\ UNCHANGED queueTaskVars

NextId == GenerateId

SpecId == InitId /\ [][NextId]_vars

\* ---------------------------------------------------------------- C26
\* The id is IdLength characters long and begins with the prefix and a dash.
WellFormed(id, prefix) ==
    /\ Len(id) = IdLength
    /\ IsPrefix(prefix \o <<"-">>, id)

\* C26 as stated: for any prefix the id is well formed.
C26_AnyPrefix == pc = "returned" => WellFormed(out[1], self.prefix)

\* C26: for a prefix of fewer than IdLength characters the id is well
\* formed; for a longer one it is the prefix and a dash, longer than
\* IdLength.
C26_ShortPrefix ==
    pc = "returned" =>
        IF Len(self.prefix) < IdLength
        THEN WellFormed(out[1], self.prefix)
        ELSE out[1] = self.prefix \o <<"-">>

\* An id for the prefix "tttt" (as "test" in test_id_schema) with 27 random
\* characters after the dash.
C26_Witness ==
    /\ pc = "returned"
    /\ self.prefix = <<"t", "t", "t", "t">>
    /\ Len(out[1]) = IdLength
    /\ \E i \in 6..IdLength : out[1][i] # out[1][6]

====
